---- MODULE Spec2Model ----
(***************************************************************************)
(* Model of esselunga_full_scraper.py: main() (the Resume Ledger, the      *)
(* thread pool, the collecting loop, the final write) and the worker       *)
(* process_product_code (retry on 429, global stop on timeout).            *)
(*                                                                         *)
(* A product code is a string of decimal digits (the sitemap regex         *)
(* /prodotto/(\d+)/); it is modelled as a sequence of digits.              *)
(* A work item is a position of the list codici_da_analizzare.             *)
(***************************************************************************)
EXTENDS Integers, Sequences, FiniteSets, TLC

\* ---- program constants ----
MAX_RETRIES_ON_429 == 5
NUM_WORKERS == 5
DEBUG_PRODUCT_LIMIT == 100
DEBUG_MODE == TRUE

\* ---- bounds of the model ----
\* longest sitemap (number of product codes it lists)
MaxItems == 2
\* number of successive executions of main() on the same output file
MaxRuns == 2

\* the product codes a sitemap of the model can list: "1", "01", "2"
SitemapCodes == {<<1>>, <<0, 1>>, <<2>>}

RECURSIVE SeqsUpTo(_, _)
SeqsUpTo(S, n) ==
    IF n = 0 THEN {<<>>}
    ELSE LET shorter == SeqsUpTo(S, n - 1)
         IN  shorter \cup {Append(s, c) : s \in {t \in shorter : Len(t) = n - 1}, c \in S}

\* the sitemaps of the model: every list of 0..MaxItems codes, duplicates included
Sitemaps == SeqsUpTo(SitemapCodes, MaxItems)

Range(s) == {s[k] : k \in DOMAIN s}

VARIABLES
    codici_totali,          \* list of codes parsed from the sitemap (the input)
    csv_rows,               \* the ID column of OUTPUT_CSV_FILE, in file order
                            \* (<<>>: absent or empty)
    run,                    \* number of the current execution of main()
    pc,                     \* position of the main thread
    codici_gia_analizzati,  \* the Resume Ledger
    codici_da_analizzare,   \* the work list
    submitted,              \* number of work items already passed to executor.submit
    queue,                  \* the executor's work queue (pending work items, FIFO)
    threads,                \* number of worker threads the executor has created
    running,                \* running[w]: the work item thread w executes, 0 when idle
    st,                     \* st[i]: position of the worker inside process_product_code for item i
    attempt,                \* attempt[i]: the loop variable of process_product_code
    outcome,                \* outcome[i]: the state/result of the future of item i
    stop_event,             \* the threading.Event shared by the workers and main
    yielded,                \* futures already yielded by as_completed
    lista_nuovi_prodotti,   \* work items collected as SUCCESS, in collection order
    lista_json_problematici,\* work items collected as PARSE_FAILURE
    new_rows,               \* history: IDs appended to the output file by this run
    requests,               \* history: requests[i] = number of session.get calls for item i
    n429,                   \* history: number of 429 answers received for item i
    sleeps,                 \* history: number of completed backoff waits of item i
    taken,                  \* history: number of times a worker started item i
    last_resp,              \* history: the answer to the last request of item i
    collected,              \* history: number of times main read the result of item i
    req_after_stop,         \* history: a session.get call started while stop_event was set
    succ_before_stop,       \* history: items already returned SUCCESS when stop_event was set
    slept,                  \* history: slept[w], thread w has slept since its last request
    gap,                    \* history: gap[w], what separated the last two requests of thread w
    csv_bad,                \* OUTPUT_CSV_FILE exists and pd.read_csv raises on it
    file_esistente,         \* main's flag of that name
    scrivi_header,          \* main's variable of that name (FALSE before line 433)
    failed_written,         \* history: what this run wrote to FAILED_JSON_FILE
                            \* (<<>>: the file was not opened)
    p_phase,                \* parse_product_json: where the parse of one payload stands
    prodotto,               \* parse_product_json: the nutrient fields of the record
    dati_nutrizionali_trovati, \* parse_product_json: the flag of that name
    last_main_label,        \* parse_product_json: the variable of that name
    righe,                  \* number of label rows read in the current loop
    writes,                 \* history: writes[f], number of assignments of a value to field f
    n_stage,                \* normalize_nutrient: the stage the call has reached
    label,                  \* normalize_nutrient: the parameter label
    cleaned_label,          \* normalize_nutrient: the variable of that name
    best_match,             \* normalize_nutrient: the variable of that name
    n_result,               \* normalize_nutrient: the value returned
    returned_by,            \* history: the stage that returned
    v_stage,                \* the Value Extractor: "read" before, "done" after one row
    v_nome,                 \* the canonical name of the row (nome_normalizzato)
    raw_value_text,         \* parse_product_json: the variable of that name
    valore_da_usare,        \* parse_product_json: the variable of that name (<<>>: None)
    campo,                  \* prodotto[nome_normalizzato] for the row's name
    g_pc,                   \* gamepass_picker: position of the main thread
    page_num,               \* gamepass_picker: the variable of that name
    futures,                \* gamepass_picker: futures[i], the state of the i-th future
    g_yielded,              \* gamepass_picker: futures already yielded by as_completed
    all_game_data,          \* gamepass_picker: the futures whose result was appended
    c_stage,                \* pdf_to_anki: "read" before, "done" after the correction
    result_text,            \* pdf_to_anki: ask_gemini's result_text before the correction
    corrected_text,         \* pdf_to_anki: what correct_cloze_format returned
    b_st,                   \* retry timing: "attempt", "backoff", "returned"
    b_attempt,              \* retry timing: the loop variable attempt
    wait_time,              \* retry timing: the variable of that name (<<>>: not yet computed)
    waits,                  \* retry timing: history: the waits of the item, in order
    events,                 \* retry timing: the requests and the sleeps of the item, in order
    d_pc,                   \* dekudeals: the await main() is suspended at
    page_number,            \* dekudeals: the variable of that name
    game_cards,             \* dekudeals: cards of the current list page not yet handled
    card_count,             \* dekudeals: history: number of cards handled so far
    all_initial_game_data,  \* dekudeals: the list of game records
    all_tasks,              \* dekudeals: the list of detail tasks, each with its state
    size_results,           \* dekudeals: the list asyncio.gather returned
    m_pc,                   \* category mapper: position: "for", "while", "body", "done"
    items_map,              \* category mapper: parentId of every id of the menu
    item_id,                \* category mapper: the loop variable of line 39
    current_id,             \* category mapper: the variable of that name
    path_list,              \* category mapper: the variable of that name
    categorie_finali,       \* category mapper: the paths built so far
    s_pc,                   \* justwatch: position: "loop" at the while condition, "done"
    seen_titles,            \* justwatch: the set of that name; titles are numbered as found
    stable_scroll_count,    \* justwatch: the variable of that name
    scroll_attempts,        \* justwatch: the variable of that name
    idle_passes,            \* justwatch: history: passes since the last one that added a title
    passes_run              \* justwatch: history: passes of the loop body started

vars == <<codici_totali, csv_rows, run, pc, codici_gia_analizzati, codici_da_analizzare,
          submitted, queue, threads, running, st, attempt, outcome, stop_event, yielded,
          lista_nuovi_prodotti, lista_json_problematici, new_rows, requests, n429, sleeps,
          taken, collected, last_resp, req_after_stop, succ_before_stop, slept, gap,
          csv_bad, file_esistente, scrivi_header, failed_written,
          p_phase, prodotto, dati_nutrizionali_trovati, last_main_label, righe, writes,
          n_stage, label, cleaned_label, best_match, n_result, returned_by,
          v_stage, v_nome, raw_value_text, valore_da_usare, campo,
          g_pc, page_num, futures, g_yielded, all_game_data,
          c_stage, result_text, corrected_text,
          b_st, b_attempt, wait_time, waits, events,
          d_pc, page_number, game_cards, card_count, all_initial_game_data, all_tasks, size_results,
          m_pc, items_map, item_id, current_id, path_list, categorie_finali,
          s_pc, seen_titles, stable_scroll_count, scroll_attempts, idle_passes, passes_run>>

\* the variables of main() and of the workers
scraperVars == <<codici_totali, csv_rows, run, pc, codici_gia_analizzati,
                 codici_da_analizzare, submitted, queue, threads, running, st, attempt,
                 outcome, stop_event, yielded, lista_nuovi_prodotti,
                 lista_json_problematici, new_rows, requests, n429, sleeps, taken,
                 collected, last_resp, req_after_stop, succ_before_stop, slept, gap,
                 csv_bad, file_esistente, scrivi_header, failed_written>>

\* the variables of the parse of one payload
parseVars == <<p_phase, prodotto, dati_nutrizionali_trovati, last_main_label, righe, writes>>

\* the variables of one call of normalize_nutrient
normVars == <<n_stage, label, cleaned_label, best_match, n_result, returned_by>>

\* the variables of the reading of one value text
valueVars == <<v_stage, v_nome, raw_value_text, valore_da_usare, campo>>

\* the variables of esselunga_full_scraper.py
groceryVars == <<scraperVars, parseVars, normVars, valueVars>>

\* the variables of gamepass_picker.py
gameVars == <<g_pc, page_num, futures, g_yielded, all_game_data>>

\* the variables of pdf_to_anki_with_gemini.py
clozeVars == <<c_stage, result_text, corrected_text>>

\* the variables of one timed retry sequence of process_product_code
waitVars == <<b_st, b_attempt, wait_time, waits, events>>

\* the variables of async_scrape_dekudeals_file_sizes.py
dekuVars ==
    <<d_pc, page_number, game_cards, card_count, all_initial_game_data, all_tasks,
      size_results>>

\* the variables of esselunga_category_mapper.py
menuVars == <<m_pc, items_map, item_id, current_id, path_list, categorie_finali>>

\* the variables of playwright_scrape_justwatch_infinite_scroll.py
scrollVars == <<s_pc, seen_titles, stable_scroll_count, scroll_attempts, idle_passes, passes_run>>

\* the variables of the other scripts of the repository
scriptVars == <<gameVars, clozeVars, waitVars, dekuVars, menuVars, scrollVars>>

\* the variables no step of main() or of a worker changes
otherVars == <<csv_bad, parseVars, normVars, valueVars, scriptVars>>

\* what a step of one script leaves alone: the variables of all the others
gameRest == <<groceryVars, clozeVars, waitVars, dekuVars, menuVars, scrollVars>>
clozeRest == <<groceryVars, gameVars, waitVars, dekuVars, menuVars, scrollVars>>
waitRest == <<groceryVars, gameVars, clozeVars, dekuVars, menuVars, scrollVars>>
dekuRest == <<groceryVars, gameVars, clozeVars, waitVars, menuVars, scrollVars>>
menuRest == <<groceryVars, gameVars, clozeVars, waitVars, dekuVars, scrollVars>>
scrollRest == <<groceryVars, gameVars, clozeVars, waitVars, dekuVars, menuVars>>

Workers == 1..NUM_WORKERS
Items == DOMAIN codici_da_analizzare

\* ---- the Resume Ledger ----

\* pandas reads an all-digit ID column as integers and astype(str) prints them
\* back: leading zeros are lost ("01" -> "1", "00" -> "0").
RECURSIVE IntStr(_)
IntStr(code) ==
    IF Len(code) > 1 /\ Head(code) = 0 THEN IntStr(Tail(code)) ELSE code

\* set(df_esistente['ID'].astype(str))
LedgerFromCsv(rows) == {IntStr(rows[k]) : k \in DOMAIN rows}

\* line 384: the codes of the sitemap that are not in the ledger, in sitemap order
FilterNothing(codes, ledger) == codes
FilterOnlyFirst(codes, ledger) ==
    IF codes # <<>> /\ Head(codes) \in ledger THEN Tail(codes) ELSE codes
RECURSIVE FilterNotIn(_, _)
FilterNotIn(codes, ledger) ==
    IF codes = <<>> THEN <<>>
    ELSE IF Head(codes) \in ledger THEN FilterNotIn(Tail(codes), ledger)
    ELSE <<Head(codes)>> \o FilterNotIn(Tail(codes), ledger)

\* the arrangements random.sample(population, k) can return
RECURSIVE Arrangements(_, _)
Arrangements(idx, k) ==
    IF k = 0 THEN {<<>>}
    ELSE UNION {{<<j>> \o rest : rest \in Arrangements(idx \ {j}, k - 1)} : j \in idx}

Samples(codes, k) ==
    {[n \in 1..k |-> codes[a[n]]] : a \in Arrangements(DOMAIN codes, k)}

\* the lists codici_da_analizzare can be after the DEBUG_MODE block
WorkLists(codes) ==
    IF DEBUG_MODE /\ Len(codes) > DEBUG_PRODUCT_LIMIT
    THEN Samples(codes, DEBUG_PRODUCT_LIMIT)
    ELSE {codes}

\* ---- the state at the start of an execution of main() ----

NoItems == <<>>

\* the variables of one execution before main() has done anything
RunStart ==
    /\ run = 1
    /\ pc = "start"
    /\ codici_gia_analizzati = {}
    /\ codici_da_analizzare = <<>>
    /\ submitted = 0
    /\ queue = <<>>
    /\ threads = 0
    /\ running = [w \in Workers |-> 0]
    /\ st = NoItems
    /\ attempt = NoItems
    /\ outcome = NoItems
    /\ stop_event = FALSE
    /\ yielded = {}
    /\ lista_nuovi_prodotti = <<>>
    /\ lista_json_problematici = <<>>
    /\ new_rows = <<>>
    /\ requests = NoItems
    /\ n429 = NoItems
    /\ sleeps = NoItems
    /\ taken = NoItems
    /\ collected = NoItems
    /\ last_resp = NoItems
    /\ req_after_stop = FALSE
    /\ succ_before_stop = {}
    /\ slept = [w \in Workers |-> FALSE]
    /\ gap = [w \in Workers |-> "none"]
    /\ file_esistente = FALSE
    /\ scrivi_header = FALSE
    /\ failed_written = <<>>

\* ---- parse_product_json: the nutrient fields of one record ----

\* lines 86-91
REGEX_PRIORITY_ORDER ==
    <<"Grassi saturi", "Zuccheri", "Grassi", "Carboidrati", "Energia", "Proteine", "Fibre",
      "Sale">>
CANONICAL_LABELS == REGEX_PRIORITY_ORDER

\* Python's None where a label is expected, and where a number is expected
None == "None"
NoValue == -1

\* no payload is being parsed
ParseIdle ==
    /\ p_phase = "idle"
    /\ prodotto = <<>>
    /\ dati_nutrizionali_trovati = FALSE
    /\ last_main_label = None
    /\ righe = 0
    /\ writes = <<>>

\* best_match before extractOne was called
NotCalled == <<"not called", 0>>

\* normalize_nutrient is not being called
NormIdle ==
    /\ n_stage = "idle"
    /\ label = <<>>
    /\ cleaned_label = <<>>
    /\ best_match = NotCalled
    /\ n_result = None
    /\ returned_by = "none"

\* a float is the pair of its integer digits, without leading zeros, and of its
\* decimal digits, without trailing zeros; Absent stands for None
Absent == <<>>

\* no value text is being read
ValueIdle ==
    /\ v_stage = "idle"
    /\ v_nome = None
    /\ raw_value_text = <<>>
    /\ valore_da_usare = <<>>
    /\ campo = Absent

\* gamepass_picker.py has not started
GameIdle ==
    /\ g_pc = "idle"
    /\ page_num = 1
    /\ futures = <<>>
    /\ g_yielded = {}
    /\ all_game_data = <<>>

\* ask_gemini is not being called
ClozeIdle ==
    /\ c_stage = "idle"
    /\ result_text = <<>>
    /\ corrected_text = <<>>

\* no retry sequence is being timed
WaitIdle ==
    /\ b_st = "idle"
    /\ b_attempt = 0
    /\ wait_time = <<>>
    /\ waits = <<>>
    /\ events = <<>>

\* async_scrape_dekudeals_file_sizes.py has not started
DekuIdle ==
    /\ d_pc = "idle"
    /\ page_number = 1
    /\ game_cards = 0
    /\ card_count = 0
    /\ all_initial_game_data = <<>>
    /\ all_tasks = <<>>
    /\ size_results = <<>>

\* esselunga_category_mapper.py has not started
MenuIdle ==
    /\ m_pc = "idle"
    /\ items_map = <<>>
    /\ item_id = 0
    /\ current_id = 0
    /\ path_list = <<>>
    /\ categorie_finali = <<>>

\* extract_movie_titles has not reached its scroll loop
ScrollIdle ==
    /\ s_pc = "idle"
    /\ seen_titles = {}
    /\ stable_scroll_count = 0
    /\ scroll_attempts = 0
    /\ idle_passes = 0
    /\ passes_run = 0

\* none of the other scripts is running
ScriptsIdle ==
    /\ GameIdle
    /\ ClozeIdle
    /\ WaitIdle
    /\ DekuIdle
    /\ MenuIdle
    /\ ScrollIdle

\* the first execution: some sitemap, no output file yet
Init ==
    /\ codici_totali \in Sitemaps
    /\ csv_rows = <<>>
    /\ csv_bad = FALSE
    /\ RunStart
    /\ ParseIdle
    /\ NormIdle
    /\ ValueIdle
    /\ ScriptsIdle

\* ---- main(): from the sitemap to the dispatch ----

\* lines 373-382: the ledger read from the existing output file
LoadLedger(rows) == IF rows # <<>> THEN LedgerFromCsv(rows) ELSE {}

\* lines 373-382: the ledger main() ends up with; a read that raises leaves the
\* empty set of line 373
ReadLedgerKeepsRows == LoadLedger(csv_rows)
ReadLedger == IF csv_bad THEN {} ELSE LoadLedger(csv_rows)

\* lines 374-382: file_esistente after the read; the except branch clears it
FileEsistenteAfterRead == csv_rows # <<>> /\ ~csv_bad

\* lines 369-404: sitemap, ledger, work list, cookies, and the early returns
Prepare ==
    /\ pc = "start"
    /\ IF codici_totali = <<>>
       THEN /\ pc' = "done"
            /\ UNCHANGED <<codici_gia_analizzati, codici_da_analizzare, st, attempt, outcome,
                           requests, n429, sleeps, taken, collected, last_resp,
                           file_esistente>>
       ELSE LET ledger == ReadLedger
                todo == FilterNotIn(codici_totali, ledger)
            IN  \E work \in WorkLists(todo), cookies \in BOOLEAN :
                    /\ work = <<>> => cookies
                    /\ file_esistente' = FileEsistenteAfterRead
                    /\ codici_gia_analizzati' = ledger
                    /\ codici_da_analizzare' = work
                    /\ pc' = IF work = <<>> \/ ~cookies THEN "done" ELSE "submit"
                    /\ st' = [i \in DOMAIN work |-> "unsubmitted"]
                    /\ attempt' = [i \in DOMAIN work |-> 0]
                    /\ outcome' = [i \in DOMAIN work |-> "PENDING"]
                    /\ requests' = [i \in DOMAIN work |-> 0]
                    /\ n429' = [i \in DOMAIN work |-> 0]
                    /\ sleeps' = [i \in DOMAIN work |-> 0]
                    /\ taken' = [i \in DOMAIN work |-> 0]
                    /\ collected' = [i \in DOMAIN work |-> 0]
                    /\ last_resp' = [i \in DOMAIN work |-> "none"]
    /\ UNCHANGED <<otherVars, failed_written, scrivi_header, codici_totali,
                   csv_rows, run, submitted,
                   queue, threads, running, stop_event, yielded, lista_nuovi_prodotti,
                   lista_json_problematici, new_rows, req_after_stop, succ_before_stop,
                   slept, gap>>

\* ---- the thread pool ----

IdleThreads == {w \in 1..threads : running[w] = 0}

\* ThreadPoolExecutor.submit starts a new thread when no idle thread is free for
\* the new work item and fewer than max_workers threads exist
SpawnsThread == threads < NUM_WORKERS /\ Cardinality(IdleThreads) <= Len(queue)

\* line 409: executor.submit for the next code of the work list
Submit ==
    /\ pc = "submit"
    /\ LET i == submitted + 1 IN
        /\ submitted' = i
        /\ st' = [st EXCEPT ![i] = "queued"]
        /\ queue' = Append(queue, i)
        /\ threads' = IF SpawnsThread THEN threads + 1 ELSE threads
        /\ pc' = IF i = Len(codici_da_analizzare) THEN "collect" ELSE "submit"
    /\ UNCHANGED <<otherVars, file_esistente, failed_written, scrivi_header,
                   codici_totali, csv_rows, run, codici_gia_analizzati, codici_da_analizzare,
                   running, attempt, outcome, stop_event, yielded, lista_nuovi_prodotti,
                   lista_json_problematici, new_rows, requests, n429, sleeps, taken,
                   collected, last_resp, req_after_stop, succ_before_stop, slept, gap>>

\* the queue after a worker has taken its head
DequeueKeepsHead(q) == q
Dequeue(q) == Tail(q)

\* an idle thread takes the next pending work item and enters process_product_code
Take(w) ==
    /\ w \in IdleThreads
    /\ queue # <<>>
    /\ LET i == Head(queue) IN
        /\ queue' = Dequeue(queue)
        /\ running' = [running EXCEPT ![w] = i]
        /\ st' = [st EXCEPT ![i] = "begin"]
        /\ outcome' = [outcome EXCEPT ![i] = "RUNNING"]
        /\ taken' = [taken EXCEPT ![i] = @ + 1]
    /\ UNCHANGED <<otherVars, file_esistente, failed_written, scrivi_header,
                   codici_totali, csv_rows, run, pc, codici_gia_analizzati,
                   codici_da_analizzare, submitted, threads, attempt, stop_event, yielded,
                   lista_nuovi_prodotti, lista_json_problematici, new_rows, requests, n429,
                   sleeps, collected, last_resp, req_after_stop, succ_before_stop, slept, gap>>

\* ---- process_product_code, executed by thread w for the item running[w] ----

\* stop_event.is_set() at line 317, before the item starts
StopSeenAtStart == stop_event

\* stop_event.is_set() at line 325, before each attempt
StopSeenBeforeAttempt == stop_event

\* line 324: for attempt in range(MAX_RETRIES_ON_429)
InRange(a) == a < MAX_RETRIES_ON_429

\* line 344: a 429 at this attempt is followed by a backoff wait and a retry
RetryAllowedOneLess(a) == a < MAX_RETRIES_ON_429 - 2
RetryAllowed(a) == a < MAX_RETRIES_ON_429 - 1

\* lines 343-350: what the handler of a 429 does: sleep, then the next
\* iteration ("sleep"), or give up ("return")
On429NoSleep(a) == IF RetryAllowed(a) THEN "continue" ELSE "return"
On429(a) == IF RetryAllowed(a) THEN "sleep" ELSE "return"

\* lines 333-337: the tuple returned for an answer with a JSON body
ResultOfParseSwapped(parsed) == IF parsed THEN "PARSE_FAILURE" ELSE "SUCCESS"
ResultOfParse(parsed) == IF parsed THEN "SUCCESS" ELSE "PARSE_FAILURE"

\* lines 338-341 against 342-356: the answers whose handler sets stop_event
SetsStopOnAnyError(resp) == resp \in {"timeout", "network_error"}
SetsStop(resp) == resp = "timeout"

\* the thread is free again once the function has returned
Release(w) == [running EXCEPT ![w] = 0]

\* the function returns oc for item i: the future is finished
Return(w, i, oc) ==
    /\ st' = [st EXCEPT ![i] = "done"]
    /\ outcome' = [outcome EXCEPT ![i] = oc]
    /\ running' = Release(w)

\* line 317
Begin(w) ==
    /\ running[w] # 0
    /\ LET i == running[w] IN
        /\ st[i] = "begin"
        /\ IF StopSeenAtStart
           THEN Return(w, i, "SKIP")
           ELSE /\ st' = [st EXCEPT ![i] = "loop"]
                /\ UNCHANGED <<outcome, running>>
    /\ UNCHANGED <<otherVars, file_esistente, failed_written, scrivi_header,
                   codici_totali, csv_rows, run, pc, codici_gia_analizzati,
                   codici_da_analizzare, submitted, queue, threads, attempt, stop_event,
                   yielded, lista_nuovi_prodotti, lista_json_problematici, new_rows,
                   requests, n429, sleeps, taken, collected, last_resp, req_after_stop,
                   succ_before_stop, slept, gap>>

\* lines 324-325 (and 357 when the range is exhausted)
LoopHead(w) ==
    /\ running[w] # 0
    /\ LET i == running[w] IN
        /\ st[i] = "loop"
        /\ IF ~InRange(attempt[i]) \/ StopSeenBeforeAttempt
           THEN Return(w, i, "SKIP")
           ELSE /\ st' = [st EXCEPT ![i] = "ready"]
                /\ UNCHANGED <<outcome, running>>
    /\ UNCHANGED <<otherVars, file_esistente, failed_written, scrivi_header,
                   codici_totali, csv_rows, run, pc, codici_gia_analizzati,
                   codici_da_analizzare, submitted, queue, threads, attempt, stop_event,
                   yielded, lista_nuovi_prodotti, lista_json_problematici, new_rows,
                   requests, n429, sleeps, taken, collected, last_resp, req_after_stop,
                   succ_before_stop, slept, gap>>

\* line 327: session.get is called, the request is in flight
SendRequest(w) ==
    /\ running[w] # 0
    /\ LET i == running[w] IN
        /\ st[i] = "ready"
        /\ st' = [st EXCEPT ![i] = "inflight"]
        /\ requests' = [requests EXCEPT ![i] = @ + 1]
        /\ req_after_stop' = (req_after_stop \/ stop_event)
        /\ gap' = [gap EXCEPT ![w] =
                      IF gap[w] = "none" THEN "first"
                      ELSE IF slept[w] THEN "waited"
                      ELSE IF attempt[i] > 0 THEN "retry_at_once"
                      ELSE "new_item_at_once"]
        /\ slept' = [slept EXCEPT ![w] = FALSE]
    /\ UNCHANGED <<otherVars, file_esistente, failed_written, scrivi_header,
                   codici_totali, csv_rows, run, pc, codici_gia_analizzati,
                   codici_da_analizzare, submitted, queue, threads, running, attempt,
                   outcome, stop_event, yielded, lista_nuovi_prodotti,
                   lista_json_problematici, new_rows, n429, sleeps, taken, collected,
                   last_resp, succ_before_stop>>

\* an answer (or a failure) of the request in flight for the item of thread w
Answered(w, i, resp) ==
    /\ running[w] = i
    /\ i # 0
    /\ st[i] = "inflight"
    /\ last_resp' = [last_resp EXCEPT ![i] = resp]
    /\ stop_event' = (stop_event \/ SetsStop(resp))
    /\ succ_before_stop' = IF ~stop_event /\ SetsStop(resp)
                           THEN {j \in Items : outcome[j] = "SUCCESS"}
                           ELSE succ_before_stop

\* lines 328-330: HTTP 404
Resp404(w) ==
    /\ Answered(w, running[w], "404")
    /\ Return(w, running[w], "SKIP")
    /\ UNCHANGED <<otherVars, file_esistente, failed_written, scrivi_header,
                   codici_totali, csv_rows, run, pc, codici_gia_analizzati,
                   codici_da_analizzare, submitted, queue, threads, attempt, yielded,
                   lista_nuovi_prodotti, lista_json_problematici, new_rows, requests, n429,
                   sleeps, taken, collected, req_after_stop, slept, gap>>

\* lines 331-337: a 2xx answer; parse_product_json returns a record or None
RespOk(w) ==
    \E parsed \in BOOLEAN :
        /\ Answered(w, running[w], IF parsed THEN "ok" ELSE "ok_unparsed")
        /\ Return(w, running[w], ResultOfParse(parsed))
        /\ UNCHANGED <<otherVars, file_esistente, failed_written, scrivi_header,
                       codici_totali, csv_rows, run, pc, codici_gia_analizzati,
                       codici_da_analizzare, submitted, queue, threads, attempt, yielded,
                       lista_nuovi_prodotti, lista_json_problematici, new_rows, requests,
                       n429, sleeps, taken, collected, req_after_stop, slept, gap>>

\* lines 338-341: requests.exceptions.Timeout
RespTimeout(w) ==
    /\ Answered(w, running[w], "timeout")
    /\ Return(w, running[w], "TIMEOUT_STOP")
    /\ UNCHANGED <<otherVars, file_esistente, failed_written, scrivi_header,
                   codici_totali, csv_rows, run, pc, codici_gia_analizzati,
                   codici_da_analizzare, submitted, queue, threads, attempt, yielded,
                   lista_nuovi_prodotti, lista_json_problematici, new_rows, requests, n429,
                   sleeps, taken, collected, req_after_stop, slept, gap>>

\* lines 342-350: HTTP 429
Resp429(w) ==
    /\ Answered(w, running[w], "429")
    /\ LET i == running[w]
           then == On429(attempt[i]) IN
        /\ n429' = [n429 EXCEPT ![i] = @ + 1]
        /\ CASE then = "sleep" ->
                  /\ st' = [st EXCEPT ![i] = "sleep"]
                  /\ UNCHANGED <<outcome, running, attempt>>
             [] then = "continue" ->
                  /\ st' = [st EXCEPT ![i] = "loop"]
                  /\ attempt' = [attempt EXCEPT ![i] = @ + 1]
                  /\ UNCHANGED <<outcome, running>>
             [] OTHER ->
                  /\ Return(w, i, "SKIP")
                  /\ UNCHANGED attempt
    /\ UNCHANGED <<otherVars, file_esistente, failed_written, scrivi_header,
                   codici_totali, csv_rows, run, pc, codici_gia_analizzati,
                   codici_da_analizzare, submitted, queue, threads, yielded,
                   lista_nuovi_prodotti, lista_json_problematici, new_rows, requests,
                   sleeps, taken, collected, req_after_stop, slept, gap>>

\* line 347: time.sleep(wait_time) is over; the loop goes to the next attempt
Wake(w) ==
    /\ running[w] # 0
    /\ LET i == running[w] IN
        /\ st[i] = "sleep"
        /\ st' = [st EXCEPT ![i] = "loop"]
        /\ attempt' = [attempt EXCEPT ![i] = @ + 1]
        /\ sleeps' = [sleeps EXCEPT ![i] = @ + 1]
        /\ slept' = [slept EXCEPT ![w] = TRUE]
    /\ UNCHANGED <<otherVars, file_esistente, failed_written, scrivi_header,
                   codici_totali, csv_rows, run, pc, codici_gia_analizzati,
                   codici_da_analizzare, submitted, queue, threads, running, outcome,
                   stop_event, yielded, lista_nuovi_prodotti, lista_json_problematici,
                   new_rows, requests, n429, taken, collected, last_resp, req_after_stop,
                   succ_before_stop, gap>>

\* line 343: the HTTPError handler retries on status 429 only
IsRateLimitOrOtherStatus(resp) == resp \in {"429", "http_error"}
IsRateLimit(resp) == resp = "429"

\* lines 342-353: an HTTP error status other than 429 (and other than 404)
RespHTTPError(w) ==
    /\ Answered(w, running[w], "http_error")
    /\ IF IsRateLimit("http_error")
       THEN /\ st' = [st EXCEPT ![running[w]] = "sleep"]
            /\ UNCHANGED <<outcome, running>>
       ELSE Return(w, running[w], "SKIP")
    /\ UNCHANGED <<otherVars, file_esistente, failed_written, scrivi_header,
                   codici_totali, csv_rows, run, pc, codici_gia_analizzati,
                   codici_da_analizzare, submitted, queue, threads, attempt, yielded,
                   lista_nuovi_prodotti, lista_json_problematici, new_rows, requests, n429,
                   sleeps, taken, collected, req_after_stop, slept, gap>>

\* lines 354-356: another requests.exceptions.RequestException
RespNetworkError(w) ==
    /\ Answered(w, running[w], "network_error")
    /\ Return(w, running[w], "SKIP")
    /\ UNCHANGED <<otherVars, file_esistente, failed_written, scrivi_header,
                   codici_totali, csv_rows, run, pc, codici_gia_analizzati,
                   codici_da_analizzare, submitted, queue, threads, attempt, yielded,
                   lista_nuovi_prodotti, lista_json_problematici, new_rows, requests, n429,
                   sleeps, taken, collected, req_after_stop, slept, gap>>

\* lines 326-356: the handling of the answer raises an exception that none of the
\* three except clauses names (none of them is a bare except): it leaves
\* process_product_code and becomes the exception of the future
RespRaises(w) ==
    /\ Answered(w, running[w], "raised")
    /\ Return(w, running[w], "EXCEPTION")
    /\ UNCHANGED <<otherVars, file_esistente, failed_written, scrivi_header,
                   codici_totali, csv_rows, run, pc, codici_gia_analizzati,
                   codici_da_analizzare, submitted, queue, threads, attempt, yielded,
                   lista_nuovi_prodotti, lista_json_problematici, new_rows, requests, n429,
                   sleeps, taken, collected, req_after_stop, slept, gap>>

\* ---- main(): the collecting loop, the shutdown and the write ----

\* lines 413-423: future.result() re-raises the exception of the future inside the
\* try whose except Exception clause logs it
MainCatchesNothing(oc) == FALSE
MainCatches(oc) == oc = "EXCEPTION"

\* the futures as_completed can yield next: finished and not yet yielded
Completed == {i \in Items \ yielded : st[i] = "done"}

\* the set of yielded futures after future i was yielded
Yield(i) == yielded \cup {i}

\* lines 411-423: one iteration of the loop over as_completed
Collect(i) ==
    /\ pc = "collect"
    /\ i \in Completed
    /\ yielded' = Yield(i)
    /\ IF stop_event
       THEN /\ pc' = "after_loop"
            /\ UNCHANGED <<lista_nuovi_prodotti, lista_json_problematici, collected>>
       ELSE /\ collected' = [collected EXCEPT ![i] = @ + 1]
            /\ lista_nuovi_prodotti' =
                  IF outcome[i] = "SUCCESS" THEN Append(lista_nuovi_prodotti, i)
                  ELSE lista_nuovi_prodotti
            /\ lista_json_problematici' =
                  IF outcome[i] = "PARSE_FAILURE" THEN Append(lista_json_problematici, i)
                  ELSE lista_json_problematici
            /\ pc' = IF outcome[i] = "EXCEPTION" /\ ~MainCatches(outcome[i]) THEN "crashed"
                     ELSE IF yielded' = Items THEN "after_loop" ELSE "collect"
    /\ UNCHANGED <<otherVars, file_esistente, failed_written, scrivi_header,
                   codici_totali, csv_rows, run, codici_gia_analizzati, codici_da_analizzare,
                   submitted, queue, threads, running, st, attempt, outcome, stop_event,
                   new_rows, requests, n429, sleeps, taken, last_resp, req_after_stop,
                   succ_before_stop, slept, gap>>

CollectNext == \E i \in Items : Collect(i)

\* lines 425-428: on a stop, the pending futures are cancelled
AfterLoop ==
    /\ pc = "after_loop"
    /\ pc' = "join"
    /\ IF stop_event
       THEN /\ queue' = <<>>
            /\ st' = [i \in Items |-> IF st[i] = "queued" THEN "cancelled" ELSE st[i]]
            /\ outcome' = [i \in Items |-> IF st[i] = "queued" THEN "CANCELLED" ELSE outcome[i]]
       ELSE UNCHANGED <<queue, st, outcome>>
    /\ UNCHANGED <<otherVars, file_esistente, failed_written, scrivi_header,
                   codici_totali, csv_rows, run, codici_gia_analizzati, codici_da_analizzare,
                   submitted, threads, running, attempt, stop_event, yielded,
                   lista_nuovi_prodotti, lista_json_problematici, new_rows, requests, n429,
                   sleeps, taken, collected, last_resp, req_after_stop, succ_before_stop,
                   slept, gap>>

\* shutdown(wait=True) at line 428 and at the end of the with block: main waits
\* until no work item is pending or running
Join ==
    /\ pc = "join"
    /\ queue = <<>>
    /\ \A w \in Workers : running[w] = 0
    /\ pc' = "write"
    /\ UNCHANGED <<otherVars, file_esistente, failed_written, scrivi_header,
                   codici_totali, csv_rows, run, codici_gia_analizzati, codici_da_analizzare,
                   submitted, queue, threads, running, st, attempt, outcome, stop_event,
                   yielded, lista_nuovi_prodotti, lista_json_problematici, new_rows,
                   requests, n429, sleeps, taken, collected, last_resp, req_after_stop,
                   succ_before_stop, slept, gap>>

\* line 237: the ID of the record parsed for work item i (the API answers with the
\* product whose code was requested)
RowOf(i) == codici_da_analizzare[i]

\* lines 432-437: the rows of the DataFrame built from lista_nuovi_prodotti
RowsUnlessStopped ==
    IF stop_event THEN <<>>
    ELSE [k \in DOMAIN lista_nuovi_prodotti |-> RowOf(lista_nuovi_prodotti[k])]
RowsToWrite == [k \in DOMAIN lista_nuovi_prodotti |-> RowOf(lista_nuovi_prodotti[k])]

\* lines 442-445: json.dump(lista_json_problematici) when the list is not empty;
\* the payload of work item i is named by its code
FailedToWrite ==
    [k \in DOMAIN lista_json_problematici |-> codici_da_analizzare[lista_json_problematici[k]]]

\* os.path.getsize(OUTPUT_CSV_FILE) > 0: the file holds rows or something that
\* is not a table
FileNotEmpty == csv_rows # <<>> \/ csv_bad

\* line 433
ScriviHeader == ~file_esistente \/ ~FileNotEmpty

\* lines 432-450: the rows are appended to the output file and main returns
Write ==
    /\ pc = "write"
    /\ pc' = "done"
    /\ new_rows' = RowsToWrite
    /\ csv_rows' = csv_rows \o RowsToWrite
    /\ scrivi_header' = IF lista_nuovi_prodotti # <<>> THEN ScriviHeader ELSE scrivi_header
    /\ failed_written' = FailedToWrite
    /\ UNCHANGED <<otherVars, file_esistente,
                   codici_totali, run, codici_gia_analizzati, codici_da_analizzare,
                   submitted, queue, threads, running, st, attempt, outcome, stop_event,
                   yielded, lista_nuovi_prodotti, lista_json_problematici, requests, n429,
                   sleeps, taken, collected, last_resp, req_after_stop, succ_before_stop,
                   slept, gap>>

\* the script is executed again: same sitemap, the output file as the last run left it
NextRun ==
    /\ pc = "done"
    /\ run < MaxRuns
    /\ run' = run + 1
    /\ pc' = "start"
    /\ codici_gia_analizzati' = {}
    /\ codici_da_analizzare' = <<>>
    /\ submitted' = 0
    /\ queue' = <<>>
    /\ threads' = 0
    /\ running' = [w \in Workers |-> 0]
    /\ st' = NoItems
    /\ attempt' = NoItems
    /\ outcome' = NoItems
    /\ stop_event' = FALSE
    /\ yielded' = {}
    /\ lista_nuovi_prodotti' = <<>>
    /\ lista_json_problematici' = <<>>
    /\ new_rows' = <<>>
    /\ requests' = NoItems
    /\ n429' = NoItems
    /\ sleeps' = NoItems
    /\ taken' = NoItems
    /\ collected' = NoItems
    /\ last_resp' = NoItems
    /\ req_after_stop' = FALSE
    /\ succ_before_stop' = {}
    /\ slept' = [w \in Workers |-> FALSE]
    /\ gap' = [w \in Workers |-> "none"]
    /\ file_esistente' = FALSE
    /\ scrivi_header' = FALSE
    /\ failed_written' = <<>>
    /\ UNCHANGED <<otherVars, codici_totali, csv_rows>>

\* ---- parse_product_json: the two loops over the label rows ----

\* bound: label rows read in one loop
MaxRows == 3

\* The labels of the rows, by what normalize_nutrient makes of them: a label it
\* maps to the canonical name written here, a label it rejects ("Calcio"), and the
\* blank label of a continuation row.
RowLabels == Range(CANONICAL_LABELS) \cup {"Calcio", ""}

\* normalize_nutrient on these labels
NormalizedLabel(lab) == IF lab \in Range(CANONICAL_LABELS) THEN lab ELSE None

\* the amounts a value text can carry
Amounts == {0, 5, 9}

\* The value texts, by what the code reads in them: digit, whether the text has
\* a digit (line 288); kcal, the number robust_float_conversion returns for the
\* match of ([\d.,]+)\s*kcal; g, the same for ([\d.,]+)\s*g; NoValue when there is
\* no match or no number ("tracce", "1046 kJ", "250 kcal", "5 g", "1046 kJ / 250
\* kcal per 100 g").
ValueTexts ==
    {[digit |-> d, kcal |-> NoValue, g |-> NoValue] : d \in BOOLEAN}
    \cup {[digit |-> TRUE, kcal |-> v, g |-> NoValue] : v \in Amounts}
    \cup {[digit |-> TRUE, kcal |-> NoValue, g |-> v] : v \in Amounts}
    \cup {[digit |-> TRUE, kcal |-> v, g |-> w] : v, w \in Amounts}

\* lines 270-274 and 293-297: the number read for the field nome
ValueFor(nome, text) == IF nome = "Energia" THEN text.kcal ELSE text.g

\* lines 275 and 298: the condition of the assignment
Accepted(nome, text) == ValueFor(nome, text) # NoValue /\ prodotto[nome] = NoValue

\* lines 276-277, 299-300, 304-305: prodotto[nome] = valore_numerico
Assign(nome, v) ==
    /\ prodotto' = [prodotto EXCEPT ![nome] = v]
    /\ writes' = [writes EXCEPT ![nome] = @ + 1]
    /\ dati_nutrizionali_trovati' = TRUE

\* lines 256-260: the record before the loops
ParseInit ==
    /\ p_phase = "cells"
    /\ prodotto = [f \in Range(CANONICAL_LABELS) |-> NoValue]
    /\ dati_nutrizionali_trovati = FALSE
    /\ last_main_label = None
    /\ righe = 0
    /\ writes = [f \in Range(CANONICAL_LABELS) |-> 0]

\* lines 264-277: one entry of spm_data['cells']; has_value: value_list is not empty
CellsRow ==
    /\ p_phase = "cells"
    /\ righe < MaxRows
    /\ righe' = righe + 1
    /\ \E row_label \in RowLabels, has_value \in BOOLEAN, text \in ValueTexts :
          LET nome_normalizzato == NormalizedLabel(row_label) IN
          IF has_value /\ nome_normalizzato # None /\ Accepted(nome_normalizzato, text)
          THEN Assign(nome_normalizzato, ValueFor(nome_normalizzato, text))
          ELSE UNCHANGED <<prodotto, writes, dati_nutrizionali_trovati>>
    /\ UNCHANGED <<scriptVars, scraperVars, normVars, valueVars, p_phase, last_main_label>>

\* lines 263 and 279-282: the cells are exhausted (or there are none); the HTML
\* table is read only when no value was found and the payload has one
EndCells ==
    /\ p_phase = "cells"
    /\ \E html_nutrizionale \in BOOLEAN :
          p_phase' = IF ~dati_nutrizionali_trovati /\ html_nutrizionale THEN "html"
                     ELSE "returned"
    /\ righe' = 0
    /\ UNCHANGED <<scriptVars, scraperVars, normVars, valueVars,
                   prodotto, writes, dati_nutrizionali_trovati,
                   last_main_label>>

\* lines 283-305: one tr of the HTML table; celle: the number of its td cells
HtmlRow ==
    /\ p_phase = "html"
    /\ righe < MaxRows
    /\ righe' = righe + 1
    /\ \E testo_cella_label \in RowLabels, celle \in {1, 2}, text \in ValueTexts :
          LET nome_normalizzato == NormalizedLabel(testo_cella_label) IN
          IF celle < 2 \/ ~text.digit
          THEN UNCHANGED <<prodotto, writes, dati_nutrizionali_trovati, last_main_label>>
          ELSE IF nome_normalizzato # None
          THEN /\ last_main_label' = nome_normalizzato
               /\ IF Accepted(nome_normalizzato, text)
                  THEN Assign(nome_normalizzato, ValueFor(nome_normalizzato, text))
                  ELSE UNCHANGED <<prodotto, writes, dati_nutrizionali_trovati>>
          ELSE IF testo_cella_label = "" /\ last_main_label = "Energia" /\ text.kcal # NoValue
          THEN /\ Assign("Energia", text.kcal)
               /\ UNCHANGED last_main_label
          ELSE UNCHANGED <<prodotto, writes, dati_nutrizionali_trovati, last_main_label>>
    /\ UNCHANGED <<scriptVars, scraperVars, normVars, valueVars, p_phase>>

\* line 306: the table is exhausted
EndHtml ==
    /\ p_phase = "html"
    /\ p_phase' = "returned"
    /\ UNCHANGED <<scriptVars, scraperVars, normVars, valueVars,
                   prodotto, writes, dati_nutrizionali_trovati,
                   last_main_label, righe>>

\* line 306: what parse_product_json returns
ParseResult == IF dati_nutrizionali_trovati THEN prodotto ELSE None

\* ---- normalize_nutrient: the Label Classifier ----

\* A label is the sequence of its characters.

\* lines 63-73
NORMALIZATION_MAP ==
       (<<"e", "n", "e", "r", "g", "i", "a">> :> "Energia")
    @@ (<<"v", "a", "l", "o", "r", "e", " ", "e", "n", "e", "r", "g", "e", "t", "i", "c",
            "o">> :> "Energia")
    @@ (<<"e", "n", "e", "r", "g", "i", "a", " ", "k", "c", "a", "l">> :> "Energia")
    @@ (<<"g", "r", "a", "s", "s", "i">> :> "Grassi")
    @@ (<<"a", "c", "i", "d", "i", " ", "g", "r", "a", "s", "s", "i", " ", "s", "a", "t",
            "u", "r", "i">> :> "Grassi saturi")
    @@ (<<"d", "i", " ", "c", "u", "i", " ", "a", "c", "i", "d", "i", " ", "g", "r", "a",
            "s", "s", "i", " ", "s", "a", "t", "u", "r", "i">> :> "Grassi saturi")
    @@ (<<"d", "i", " ", "c", "u", "i", " ", "s", "a", "t", "u", "r", "i">> :> "Grassi saturi")
    @@ (<<"c", "a", "r", "b", "o", "i", "d", "r", "a", "t", "i">> :> "Carboidrati")
    @@ (<<"d", "i", " ", "c", "u", "i", " ", "z", "u", "c", "c", "h", "e", "r", "i">>
            :> "Zuccheri")
    @@ (<<"z", "u", "c", "c", "h", "e", "r", "i">> :> "Zuccheri")
    @@ (<<"f", "i", "b", "r", "e">> :> "Fibre")
    @@ (<<"f", "i", "b", "r", "a">> :> "Fibre")
    @@ (<<"p", "r", "o", "t", "e", "i", "n", "e">> :> "Proteine")
    @@ (<<"s", "a", "l", "e">> :> "Sale")
    @@ (<<"s", "o", "d", "i", "o">> :> "Sale")

\* lines 94-105
IGNORE_LIST ==
    {
      <<"v", "i", "t", "a", "m", "i", "n", "a">>,
      <<"v", "i", "t">>,
      <<"c", "a", "l", "c", "i", "o">>,
      <<"f", "e", "r", "r", "o">>,
      <<"z", "i", "n", "c", "o">>,
      <<"i", "o", "d", "i", "o">>,
      <<"r", "a", "m", "e">>,
      <<"m", "a", "n", "g", "a", "n", "e", "s", "e">>,
      <<"c", "r", "o", "m", "o">>,
      <<"s", "e", "l", "e", "n", "i", "o">>,
      <<"m", "o", "l", "i", "b", "d", "e", "n", "o">>,
      <<"m", "a", "g", "n", "e", "s", "i", "o">>,
      <<"p", "o", "t", "a", "s", "s", "i", "o">>,
      <<"f", "o", "s", "f", "o", "r", "o">>,
      <<"n", "i", "a", "c", "i", "n", "a">>,
      <<"b", "i", "o", "t", "i", "n", "a">>,
      <<"r", "i", "b", "o", "f", "l", "a", "v", "i", "n", "a">>,
      <<"t", "i", "a", "m", "i", "n", "a">>,
      <<"f", "o", "l", "i", "c", "o">>,
      <<"p", "a", "n", "t", "o", "t", "e", "n", "i", "c", "o">>,
      <<"c", "o", "l", "i", "n", "a">>,
      <<"f", "l", "u", "o", "r", "u", "r", "o">>,
      <<"v", "n", "r">>,
      <<"n", "r", "v">>,
      <<"r", "i", "f", "e", "r", "i", "m", "e", "n", "t", "o">>,
      <<"p", "o", "r", "z", "i", "o", "n">>,
      <<"g", "r", "e", "z", "z", "a">>,
      <<"u", "m", "i", "d", "i", "t">>,
      <<"c", "e", "n", "e", "r", "i">>,
      <<"a", "d", "d", "i", "t", "i", "v", "i">>,
      <<"c", "o", "m", "p", "o", "n", "e", "n", "t", "i">>,
      <<"t", "a", "u", "r", "i", "n", "a">>,
      <<"v", "a", "l", "o", "r", "i", " ", "n", "u", "t", "r", "i", "t", "i", "v", "i">>,
      <<"p", "o", "l", "i", "o", "l", "i">>,
      <<"s", "o", "l", "f", "a", "t", "o">>,
      <<"c", "l", "o", "r", "u", "r", "o">>,
      <<"o", "m", "e", "g", "a">>,
      <<"c", "a", "r", "n", "i", "t", "i", "n", "a">>,
      <<"m", "e", "t", "i", "o", "n", "i", "n", "a">>,
      <<"l", "i", "s", "i", "n", "a">>,
      <<"i", "s", "t", "i", "d", "i", "n", "a">>,
      <<"r", "e", "s", "i", "d", "u", "o", " ", "f", "i", "s", "s", "o">>,
      <<"c", "o", "n", "d", "u", "c", "i", "b", "i", "l", "i", "t">>,
      <<"d", "u", "r", "e", "z", "z", "a">>,
      <<"b", "i", "c", "a", "r", "b", "o", "n", "a", "t", "o">>,
      <<"a", "n", "i", "d", "r", "i", "d", "e", " ", "c", "a", "r", "b", "o", "n", "i", "c",
              "a">>,
      <<"s", "o", "r", "g", "e", "n", "t", "e">>,
      <<"s", "i", "l", "i", "c", "e">>,
      <<"n", "i", "t", "r", "a", "t", "o">>,
      <<"p", "h">>,
      <<"e", ".", "s">>,
      <<"e", ".", "m">>,
      <<"o", ".", "e">>,
      <<"l", "a", "c", "t", "o", "b", "a", "c", "i", "l", "l", "u", "s">>,
      <<"b", "i", "f", "i", "d", "o", "b", "a", "c", "t", "e", "r", "i", "u", "m">>,
      <<"m", "e", "l", "a", "t", "o", "n", "i", "n", "a">>,
      <<"t", "r", "i", "p", "t", "o", "f", "a", "n", "o">>,
      <<"g", "r", "i", "f", "f", "o", "n", "i", "a">>,
      <<"p", "a", "s", "s", "i", "f", "l", "o", "r", "a">>,
      <<"v", "a", "l", "e", "r", "i", "a", "n", "a">>,
      <<"b", "i", "a", "n", "c", "o", "s", "p", "i", "n", "o">>,
      <<"t", "i", "g", "l", "i", "o">>,
      <<"m", "e", "l", "i", "s", "s", "a">>
    }

\* line 120: the default of the parameter fuzzy_threshold
fuzzy_threshold == 85

ASCII_UPPER ==
    <<"A", "B", "C", "D", "E", "F", "G", "H", "I", "J", "K", "L", "M", "N", "O", "P", "Q",
      "R", "S", "T", "U", "V", "W", "X", "Y", "Z">>
ASCII_LOWER ==
    <<"a", "b", "c", "d", "e", "f", "g", "h", "i", "j", "k", "l", "m", "n", "o", "p", "q",
      "r", "s", "t", "u", "v", "w", "x", "y", "z">>
DIGITS == {"0", "1", "2", "3", "4", "5", "6", "7", "8", "9"}

\* str.lower on one character
Lower(c) ==
    IF \E k \in DOMAIN ASCII_UPPER : ASCII_UPPER[k] = c
    THEN ASCII_LOWER[CHOOSE k \in DOMAIN ASCII_UPPER : ASCII_UPPER[k] = c]
    ELSE c

\* str.upper on one character
Upper(c) ==
    IF \E k \in DOMAIN ASCII_LOWER : ASCII_LOWER[k] = c
    THEN ASCII_UPPER[CHOOSE k \in DOMAIN ASCII_LOWER : ASCII_LOWER[k] = c]
    ELSE c

\* the characters \s matches and str.strip removes
IsSpace(c) == c \in {" ", "\t"}

\* str.strip
RECURSIVE LStrip(_)
LStrip(s) == IF s # <<>> /\ IsSpace(Head(s)) THEN LStrip(Tail(s)) ELSE s
RECURSIVE RStrip(_)
RStrip(s) ==
    IF s # <<>> /\ IsSpace(s[Len(s)]) THEN RStrip(SubSeq(s, 1, Len(s) - 1)) ELSE s
Strip(s) == RStrip(LStrip(s))

\* line 112: re.sub(r'[^a-z0-9\s]', '', cleaned)
KeepsChar(c) == (\E k \in DOMAIN ASCII_LOWER : ASCII_LOWER[k] = c) \/ c \in DIGITS \/ IsSpace(c)
RemovePunctuation(s) == SelectSeq(s, KeepsChar)

\* line 113: re.sub(r'\s+', ' ', cleaned)
RECURSIVE CollapseSpaces(_)
CollapseSpaces(s) ==
    IF s = <<>> THEN <<>>
    ELSE IF IsSpace(Head(s)) THEN <<" ">> \o CollapseSpaces(LStrip(s))
    ELSE <<Head(s)>> \o CollapseSpaces(Tail(s))

\* lines 108-114
clean_text(text) ==
    CollapseSpaces(RemovePunctuation(Strip([k \in DOMAIN text |-> Lower(text[k])])))

\* line 117
CLEAN_NORMALIZATION_MAP ==
    [c \in {clean_text(k) : k \in DOMAIN NORMALIZATION_MAP} |->
        NORMALIZATION_MAP[CHOOSE k \in DOMAIN NORMALIZATION_MAP : clean_text(k) = c]]

\* word in s
Contains(s, word) ==
    \E k \in 1..(Len(s) - Len(word) + 1) : SubSeq(s, k, k + Len(word) - 1) = word

\* re.search of word(?!.*later): an occurrence of word with no later after it
ContainsNotFollowed(s, word, later) ==
    \E k \in 1..(Len(s) - Len(word) + 1) :
        /\ SubSeq(s, k, k + Len(word) - 1) = word
        /\ ~Contains(SubSeq(s, k + Len(word), Len(s)), later)

\* lines 75-84: REGEX_MAP[name].search(s). The optional groups in front of saturi
\* and of zuccheri do not change whether the search finds a match.
REGEX_MAP(name, s) ==
    CASE name = "Energia" ->
            Contains(s, <<"e", "n", "e", "r", "g", "i">>) \/ Contains(s, <<"k", "c", "a",
                    "l">>) \/ Contains(s, <<"k", "j">>)
      [] name = "Grassi saturi" -> Contains(s, <<"s", "a", "t", "u", "r", "i">>)
      [] name = "Zuccheri" -> Contains(s, <<"z", "u", "c", "c", "h", "e", "r", "i">>)
      [] name = "Carboidrati" ->
            ContainsNotFollowed(s, <<"c", "a", "r", "b", "o", "i", "d", "r", "a", "t", "i">>,
                                <<"z", "u", "c", "c", "h", "e", "r", "i">>)
      [] name = "Grassi" ->
            ContainsNotFollowed(s, <<"g", "r", "a", "s", "s", "i">>, <<"s", "a", "t", "u",
                    "r", "i">>)
      [] name = "Fibre" ->
            Contains(s, <<"f", "i", "b", "r", "a">>) \/ Contains(s, <<"f", "i", "b", "r", "e">>)
      [] name = "Proteine" -> Contains(s, <<"p", "r", "o", "t", "e", "i", "n", "e">>)
      [] name = "Sale" -> Contains(s, <<"s", "a", "l", "e">>) \/ Contains(s, <<"s", "o", "d",
              "i", "o">>)

\* line 127: any(word in cleaned_label for word in IGNORE_LIST)
IgnoredWholeLabel(cleaned) == cleaned \in IGNORE_LIST
Ignored(cleaned) == \E word \in IGNORE_LIST : Contains(cleaned, word)

\* line 130: cleaned_label in CLEAN_NORMALIZATION_MAP
InDictionaryNever(cleaned) == FALSE
InDictionary(cleaned) == cleaned \in DOMAIN CLEAN_NORMALIZATION_MAP

\* lines 134-136: the position in REGEX_PRIORITY_ORDER of the name the loop returns
\* (0: no pattern matches)
Matching(cleaned) ==
    {k \in DOMAIN REGEX_PRIORITY_ORDER : REGEX_MAP(REGEX_PRIORITY_ORDER[k], cleaned)}
LastMatching(cleaned) ==
    IF Matching(cleaned) = {} THEN 0
    ELSE CHOOSE k \in Matching(cleaned) : \A j \in Matching(cleaned) : j <= k
FirstMatching(cleaned) ==
    IF Matching(cleaned) = {} THEN 0
    ELSE CHOOSE k \in Matching(cleaned) : \A j \in Matching(cleaned) : k <= j

\* line 139: best_match and best_match[1] >= fuzzy_threshold; best is <<name, score>>,
\* with the name None when extractOne returns None
FuzzyAcceptsAbove(best) == best[1] # None /\ best[2] > fuzzy_threshold
FuzzyAccepts(best) == best[1] # None /\ best[2] >= fuzzy_threshold

\* The answers of thefuzz's process.extractOne(cleaned_label, CANONICAL_LABELS): one
\* of the canonical names with a score from 0 to 100, or None. The library is not
\* part of the program; its answer is an input of the stage.
FuzzyScores == {0, fuzzy_threshold - 1, fuzzy_threshold, 100}
FuzzyAnswers == {<<None, 0>>} \cup (Range(CANONICAL_LABELS) \X FuzzyScores)

\* return v, from the stage by
NormReturn(v, by) ==
    /\ n_result' = v
    /\ returned_by' = by
    /\ n_stage' = "returned"

\* lines 121-125: the empty label, the cleaning, the label that cleans to nothing
CleanStage ==
    /\ n_stage = "start"
    /\ IF label = <<>> \/ Strip(label) = <<>>
       THEN NormReturn(None, "empty") /\ UNCHANGED cleaned_label
       ELSE /\ cleaned_label' = clean_text(label)
            /\ IF clean_text(label) = <<>>
               THEN NormReturn(None, "empty")
               ELSE n_stage' = "ignore" /\ UNCHANGED <<n_result, returned_by>>
    /\ UNCHANGED <<scriptVars, scraperVars, parseVars, valueVars, label, best_match>>

\* lines 127-128
IgnoreStage ==
    /\ n_stage = "ignore"
    /\ IF Ignored(cleaned_label)
       THEN NormReturn(None, "ignore")
       ELSE n_stage' = "dictionary" /\ UNCHANGED <<n_result, returned_by>>
    /\ UNCHANGED <<scriptVars, scraperVars, parseVars, valueVars, label, cleaned_label, best_match>>

\* lines 130-131
DictionaryStage ==
    /\ n_stage = "dictionary"
    /\ IF InDictionary(cleaned_label)
       THEN NormReturn(CLEAN_NORMALIZATION_MAP[cleaned_label], "dictionary")
       ELSE n_stage' = "regex" /\ UNCHANGED <<n_result, returned_by>>
    /\ UNCHANGED <<scriptVars, scraperVars, parseVars, valueVars, label, cleaned_label, best_match>>

\* lines 134-136
RegexStage ==
    /\ n_stage = "regex"
    /\ IF FirstMatching(cleaned_label) # 0
       THEN NormReturn(REGEX_PRIORITY_ORDER[FirstMatching(cleaned_label)], "regex")
       ELSE n_stage' = "fuzzy" /\ UNCHANGED <<n_result, returned_by>>
    /\ UNCHANGED <<scriptVars, scraperVars, parseVars, valueVars, label, cleaned_label, best_match>>

\* lines 138-141
FuzzyStage ==
    /\ n_stage = "fuzzy"
    /\ \E best \in FuzzyAnswers :
          /\ best_match' = best
          /\ IF FuzzyAccepts(best)
             THEN NormReturn(best[1], "fuzzy")
             ELSE NormReturn(None, "none")
    /\ UNCHANGED <<scriptVars, scraperVars, parseVars, valueVars, label, cleaned_label>>

\* ---- the labels normalize_nutrient is called with ----

\* bound: words in a label
MaxWords == 2

\* the words and word pairs of the nutrition tables: those the tables of the
\* module name, some the denylist rejects, some that no table knows
Words ==
    {
      <<"e", "n", "e", "r", "g", "i", "a">>,
      <<"v", "a", "l", "o", "r", "e", " ", "e", "n", "e", "r", "g", "e", "t", "i", "c", "o">>,
      <<"e", "n", "e", "r", "g", "e", "t", "i", "c", "o">>,
      <<"k", "c", "a", "l">>,
      <<"k", "j">>,
      <<"g", "r", "a", "s", "s", "i">>,
      <<"a", "c", "i", "d", "i", " ", "g", "r", "a", "s", "s", "i">>,
      <<"s", "a", "t", "u", "r", "i">>,
      <<"i", "n", "s", "a", "t", "u", "r", "i">>,
      <<"d", "i", " ", "c", "u", "i">>,
      <<"c", "a", "r", "b", "o", "i", "d", "r", "a", "t", "i">>,
      <<"z", "u", "c", "c", "h", "e", "r", "i">>,
      <<"f", "i", "b", "r", "e">>,
      <<"f", "i", "b", "r", "a">>,
      <<"p", "r", "o", "t", "e", "i", "n", "e">>,
      <<"s", "a", "l", "e">>,
      <<"s", "o", "d", "i", "o">>,
      <<"v", "i", "t", "a", "m", "i", "n", "a", " ", "c">>,
      <<"p", "o", "r", "z", "i", "o", "n", "e">>,
      <<"g", "r", "e", "z", "z", "a">>,
      <<"o", "m", "e", "g", "a", " ", "3">>,
      <<"p", "h">>,
      <<"t", "o", "t", "a", "l", "i">>,
      <<"a", "m", "i", "d", "o">>
    }

\* the labels of at most n words
RECURSIVE Phrases(_)
Phrases(n) ==
    IF n <= 1 THEN Words
    ELSE Words \cup {p \o <<" ">> \o w : p \in Phrases(n - 1), w \in Words}

\* the ways a table spells the label l: as it is, capitalised with a colon,
\* between blanks, with a unit in brackets, with a dash after it
Spellings(l) ==
    { l,
      [k \in DOMAIN l |-> IF k = 1 THEN Upper(l[k]) ELSE l[k]] \o <<":">>,
      <<" ">> \o l \o <<"\t">>,
      l \o <<" ", "(", "g", ")">>,
      l \o <<" ", "-">> }

Labels ==
    UNION {Spellings(l) :
              l \in Phrases(MaxWords) \cup DOMAIN NORMALIZATION_MAP \cup IGNORE_LIST}
    \cup {<<>>, <<" ">>, <<"-">>}

\* normalize_nutrient(l) has just been called
NormInit ==
    /\ n_stage = "start"
    /\ label \in Labels
    /\ cleaned_label = <<>>
    /\ best_match = NotCalled
    /\ n_result = None
    /\ returned_by = "none"

\* ---- parse_product_json: the Value Extractor ----

\* the characters of [\d.,]
IsNumberChar(c) == c \in DIGITS \cup {".", ","}

\* the last position of the run of [\d.,] characters that starts at k
RECURSIVE RunEnd(_, _)
RunEnd(text, k) ==
    IF k < Len(text) /\ IsNumberChar(text[k + 1]) THEN RunEnd(text, k + 1) ELSE k

\* the pattern ([\d.,]+)\s*unit matches at k: [\d.,]+ is greedy and what follows a
\* shorter run is a character of the run, so the group is the whole run
MatchesAt(text, k, unit) ==
    /\ IsNumberChar(text[k])
    /\ LET rest == LStrip(SubSeq(text, RunEnd(text, k) + 1, Len(text))) IN
          /\ Len(rest) >= Len(unit)
          /\ \A j \in DOMAIN unit : Lower(rest[j]) = unit[j]

\* lines 227-228, 271-272: group 1 of re.search(r'([\d.,]+)\s*unit', text,
\* re.IGNORECASE), the leftmost match; <<>> when there is none
SearchNumber(text, unit) ==
    IF \E k \in DOMAIN text : MatchesAt(text, k, unit)
    THEN LET k == CHOOSE k \in DOMAIN text :
                      /\ MatchesAt(text, k, unit)
                      /\ \A j \in 1..(k - 1) : ~MatchesAt(text, j, unit)
         IN  SubSeq(text, k, RunEnd(text, k))
    ELSE <<>>

\* lines 270-274: the pattern for Energia reads kcal, the others read g
ExtractFor(nome, text) ==
    IF nome = "Energia" THEN SearchNumber(text, <<"k", "c", "a", "l">>)
    ELSE SearchNumber(text, <<"g">>)

\* line 220: s.replace('.', '')
KeepDots(str) == str
RemoveDots(str) == SelectSeq(str, LAMBDA c : c # ".")

RECURSIVE NoLeadingZeros(_)
NoLeadingZeros(d) == IF d # <<>> /\ Head(d) = "0" THEN NoLeadingZeros(Tail(d)) ELSE d
RECURSIVE NoTrailingZeros(_)
NoTrailingZeros(d) ==
    IF d # <<>> /\ d[Len(d)] = "0" THEN NoTrailingZeros(SubSeq(d, 1, Len(d) - 1)) ELSE d

\* line 221: float(str) for a str of digits and dots: a number when it has a digit
\* and at most one dot, ValueError otherwise
Float(str) ==
    LET dots == {k \in DOMAIN str : str[k] = "."} IN
    IF Cardinality(dots) > 1 \/ Cardinality(dots) = Len(str) THEN Absent
    ELSE LET p == IF dots = {} THEN Len(str) + 1 ELSE CHOOSE k \in dots : TRUE
         IN  <<NoLeadingZeros(SubSeq(str, 1, p - 1)),
               NoTrailingZeros(SubSeq(str, p + 1, Len(str)))>>

\* lines 216-223
robust_float_conversion(str) ==
    IF \E k \in DOMAIN str : str[k] = ","
    THEN Float([k \in DOMAIN RemoveDots(str) |->
                   IF RemoveDots(str)[k] = "," THEN "." ELSE RemoveDots(str)[k]])
    ELSE Float(str)

\* lines 268-277: one row with a classified label; the field of the name is None
\* before it
ValueRow ==
    /\ v_stage = "read"
    /\ v_stage' = "done"
    /\ valore_da_usare' = ExtractFor(v_nome, raw_value_text)
    /\ campo' = IF ExtractFor(v_nome, raw_value_text) # <<>>
                   /\ robust_float_conversion(ExtractFor(v_nome, raw_value_text)) # Absent
                   /\ campo = Absent
                THEN robust_float_conversion(ExtractFor(v_nome, raw_value_text))
                ELSE campo
    /\ UNCHANGED <<scriptVars, scraperVars, parseVars, normVars, v_nome, raw_value_text>>

\* bound: digit groups and separators in a number text
MaxParts == 5

\* the digit groups and the separators a number text is written with
NumberParts == {<<"0">>, <<"1">>, <<"2", "3", "4">>, <<"5">>, <<".">>, <<",">>}

RECURSIVE NumberTexts(_)
NumberTexts(n) ==
    IF n = 0 THEN {<<>>}
    ELSE {<<>>} \cup {t \o part : t \in NumberTexts(n - 1), part \in NumberParts}

\* what follows the number in the value text
Units == {<<>>, <<" ", "g">>, <<" ", "k", "c", "a", "l">>}

\* a row is about to be read
ValueInit ==
    /\ v_stage = "read"
    /\ v_nome \in {"Energia", "Grassi"}
    /\ raw_value_text \in {t \o u : t \in NumberTexts(MaxParts), u \in Units}
    /\ valore_da_usare = <<>>
    /\ campo = Absent

\* ---- gamepass_picker.py: the list pages, the pool of three workers, the results ----

\* line 136
max_workers == 3

\* most game pages one execution submits, most list pages it reads, and most links
\* with an href one list page holds
MaxGames == 3
MaxListPages == 2
MaxLinks == 2

\* the names the import statements of lines 1-7 bind in the module
GameImports ==
    {"pd", "cloudscraper", "BeautifulSoup", "ThreadPoolExecutor", "as_completed", "time",
     "random", "os"}

\* the outcomes of session.get and raise_for_status at lines 80-81
PageAnswers == {"200", "http_error", "request_exception"}

\* lines 112-117: an exception raised in the try block is matched against the
\* except clauses in order; evaluating the expression of the first clause,
\* importlib.metadata.PackageNotFoundError, raises NameError when the name
\* importlib is not bound, and that exception leaves the function
OnException == IF "importlib" \in GameImports THEN "None" ELSE "raised"

\* lines 76-117: what the future of one call of scrape_game_page ends with
scrape_game_page(answer) == IF answer = "200" THEN "dict" ELSE OnException

GameInit ==
    /\ g_pc = "listing"
    /\ page_num = 1
    /\ futures = <<>>
    /\ g_yielded = {}
    /\ all_game_data = <<>>

RECURSIVE Pending(_)
Pending(n) == IF n = 0 THEN <<>> ELSE Append(Pending(n - 1), "pending")

\* lines 138-163: one list page with links; every link with an href is submitted
ListPage ==
    /\ g_pc = "listing"
    /\ page_num <= MaxListPages
    /\ \E n \in 0..MaxLinks :
         /\ Len(futures) + n <= MaxGames
         /\ futures' = futures \o Pending(n)
    /\ page_num' = page_num + 1
    /\ UNCHANGED <<gameRest, g_pc, g_yielded, all_game_data>>

\* lines 144-146, 151-153, 165-167: a status other than 200, a page without links
\* or an exception ends the loop; leaving the with block waits for every future
StopListing ==
    /\ g_pc = "listing"
    /\ g_pc' = "shutdown"
    /\ UNCHANGED <<gameRest, page_num, futures, g_yielded, all_game_data>>

\* a thread of the pool starts the next submitted call
StartPage(i) ==
    /\ futures[i] = "pending"
    /\ \A j \in 1..(i - 1) : futures[j] # "pending"
    /\ Cardinality({j \in DOMAIN futures : futures[j] = "running"}) < max_workers
    /\ futures' = [futures EXCEPT ![i] = "running"]
    /\ UNCHANGED <<gameRest, g_pc, page_num, g_yielded, all_game_data>>

\* lines 75-117: the page request of a running call is answered
PageAnswer(i) ==
    /\ futures[i] = "running"
    /\ \E answer \in PageAnswers : futures' = [futures EXCEPT ![i] = scrape_game_page(answer)]
    /\ UNCHANGED <<gameRest, g_pc, page_num, g_yielded, all_game_data>>

\* line 136: the with block ends when no future is pending or running
PoolShutdown ==
    /\ g_pc = "shutdown"
    /\ \A i \in DOMAIN futures : futures[i] \notin {"pending", "running"}
    /\ g_pc' = "collecting"
    /\ UNCHANGED <<gameRest, page_num, futures, g_yielded, all_game_data>>

\* lines 172-176: future.result() re-raises the exception of the call, and nothing
\* around it catches: the script ends with the traceback
GameCollect(i) ==
    /\ g_pc = "collecting"
    /\ i \notin g_yielded
    /\ g_yielded' = g_yielded \cup {i}
    /\ IF futures[i] = "raised"
       THEN g_pc' = "crashed" /\ UNCHANGED all_game_data
       ELSE /\ all_game_data' = IF futures[i] = "dict" THEN Append(all_game_data, i)
                                ELSE all_game_data
            /\ UNCHANGED g_pc
    /\ UNCHANGED <<gameRest, page_num, futures>>

\* line 178: as_completed is exhausted
GameCollected ==
    /\ g_pc = "collecting"
    /\ g_yielded = DOMAIN futures
    /\ g_pc' = "done"
    /\ UNCHANGED <<gameRest, page_num, futures, g_yielded, all_game_data>>

\* ---- pdf_to_anki_with_gemini.py: correct_cloze_format ----

\* the index of the last character of the longest run of digits that starts at
\* position k of t (k - 1 when t[k] is not a digit): \d+ is greedy
RECURSIVE DigitsEnd(_, _)
DigitsEnd(t, k) ==
    IF k <= Len(t) /\ t[k] \in DIGITS THEN DigitsEnd(t, k + 1) ELSE k - 1

\* the index of the first "}" at or after position j of t that no newline
\* precedes, 0 when there is none: (.*?)} is lazy and . matches no newline
RECURSIVE BodyEnd(_, _)
BodyEnd(t, j) ==
    IF j > Len(t) \/ t[j] = "\n" THEN 0
    ELSE IF t[j] = "}" THEN j
    ELSE BodyEnd(t, j + 1)

\* line 102: where a match of {c(\d+)::(.*?)} that starts at position k of t ends,
\* 0 when none starts there
ClozeMatchEnd(t, k) ==
    LET d == DigitsEnd(t, k + 2)
    IN  IF /\ k + 1 <= Len(t)
           /\ t[k] = "{"
           /\ t[k + 1] = "c"
           /\ d >= k + 2
           /\ d + 2 <= Len(t)
           /\ t[d + 1] = ":"
           /\ t[d + 2] = ":"
        THEN BodyEnd(t, d + 3)
        ELSE 0

\* lines 103-104: re.subn replaces the matches from left to right, without
\* overlap, by {{c\1::\2}}, which is the match between one more pair of braces
RECURSIVE SubnFrom(_, _)
SubnFrom(t, k) ==
    IF k > Len(t) THEN <<>>
    ELSE LET e == ClozeMatchEnd(t, k)
         IN  IF e = 0 THEN <<t[k]>> \o SubnFrom(t, k + 1)
             ELSE <<"{">> \o SubSeq(t, k, e) \o <<"}">> \o SubnFrom(t, e + 1)

\* lines 96-109
correct_cloze_format(t) == SubnFrom(t, 1)

\* lines 131-134: ask_gemini with is_cloze_request replaces result_text by the
\* corrected text
CorrectCloze ==
    /\ c_stage = "read"
    /\ corrected_text' = correct_cloze_format(result_text)
    /\ c_stage' = "done"
    /\ UNCHANGED <<clozeRest, result_text>>

\* most pieces of a reply of the model
MaxPieces == 5

\* the pieces replies are made of: braces, the head of a deletion, some text
ClozePieces == {<<"{">>, <<"}">>, <<"{", "c", "1", ":", ":">>, <<"x">>, <<"c", "2">>}

RECURSIVE ClozeTexts(_)
ClozeTexts(n) ==
    IF n = 0 THEN {<<>>}
    ELSE {<<>>} \cup {t \o piece : t \in ClozeTexts(n - 1), piece \in ClozePieces}

\* a reply was received and stripped
ClozeInit ==
    /\ c_stage = "read"
    /\ result_text \in ClozeTexts(MaxPieces)
    /\ corrected_text = <<>>

\* ---- process_product_code: the waits of one item's retry sequence ----

\* line 59
BACKOFF_FACTOR == 2

\* A float near an integer is the pair <<n, d>> that stands for n + d * 2^-53,
\* where 2^-53 is the spacing of the values random.random() returns.

\* largest deviation, in units of 2^-53, of a jitter of the model from 0 or from 1
MaxUlps == 6

\* random.uniform(0, 1) is 0 + (1 - 0) * random(), a multiple of 2^-53 in [0, 1):
\* the model draws the values next to 0 and the values next to 1
Jitters == {<<0, k>> : k \in 0..MaxUlps} \cup {<<1, 0 - m>> : m \in 1..MaxUlps}

RECURSIVE Pow2(_)
Pow2(a) == IF a = 0 THEN 1 ELSE 2 * Pow2(a - 1)

\* the largest power of two that is at most n
RECURSIVE Binade(_)
Binade(n) == IF n < 2 THEN 1 ELSE 2 * Binade(n \div 2)

\* n rounded to the nearest multiple of q, a tie to the even multiple
RoundToEven(n, q) ==
    LET lo == (n \div q) * q
        r == n - lo
    IN  IF 2 * r < q THEN lo
        ELSE IF 2 * r > q THEN lo + q
        ELSE IF (n \div q) % 2 = 0 THEN lo ELSE lo + q

\* int + float in IEEE 754 binary64, round to nearest even: between w and 2 * w
\* the floats are 2 * Binade(w) units of 2^-53 apart
FloatAdd(w, jitter) ==
    <<w + jitter[1], RoundToEven(jitter[2], 2 * Binade(w))>>

\* line 345: BACKOFF_FACTOR * (2 ** attempt)
BackoffBaseConstant(a) == BACKOFF_FACTOR
BackoffBase(a) == BACKOFF_FACTOR * Pow2(a)

\* the answers to one request
TimedAnswers == {"200", "404", "429", "timeout", "http_error", "network_error"}

\* the worker is about to enter the loop of line 324
WaitInit ==
    /\ b_st = "attempt"
    /\ b_attempt = 0
    /\ wait_time = <<>>
    /\ waits = <<>>
    /\ events = <<>>

\* lines 325-356: one pass of the loop up to the return or the call of time.sleep
TimedRequest ==
    /\ b_st = "attempt"
    /\ \E stop_seen \in BOOLEAN, resp \in TimedAnswers, jitter \in Jitters :
         IF stop_seen
         THEN b_st' = "returned" /\ UNCHANGED <<wait_time, waits, events>>
         ELSE /\ events' = Append(events, "attempt")
              /\ IF IsRateLimit(resp) /\ RetryAllowed(b_attempt)
                 THEN /\ wait_time' = FloatAdd(BackoffBase(b_attempt), jitter)
                      /\ waits' = Append(waits, wait_time')
                      /\ b_st' = "backoff"
                 ELSE b_st' = "returned" /\ UNCHANGED <<wait_time, waits>>
    /\ UNCHANGED <<waitRest, b_attempt>>

\* line 347 and line 324: time.sleep returns, the loop takes the next attempt
TimedWake ==
    /\ b_st = "backoff"
    /\ events' = Append(events, "backoff")
    /\ b_attempt' = b_attempt + 1
    /\ b_st' = "attempt"
    /\ UNCHANGED <<waitRest, wait_time, waits>>

\* ---- async_scrape_dekudeals_file_sizes.py: main() and the detail tasks ----

\* most cards on one list page
MaxCards == 2

\* lines 126-133: main() is about to request the first list page
DekuInit ==
    /\ d_pc = "fetch_list"
    /\ page_number = 1
    /\ game_cards = 0
    /\ card_count = 0
    /\ all_initial_game_data = <<>>
    /\ all_tasks = <<>>
    /\ size_results = <<>>

\* lines 211-213: after the pagination loop
AfterPagination == IF all_tasks = <<>> THEN "done" ELSE "gather"

\* lines 136-149: the list page is answered; a 404, an HTTP error or any other
\* exception ends the pagination
FetchListPage ==
    /\ d_pc = "fetch_list"
    /\ \E answer \in {"200", "404", "http_error", "exception"} :
         d_pc' = IF answer = "200" /\ page_number <= MaxListPages THEN "parse"
                 ELSE AfterPagination
    /\ UNCHANGED <<dekuRest, page_number, game_cards, card_count, all_initial_game_data,
                   all_tasks, size_results>>

\* lines 152-161, 206-208: the page is parsed in the executor; no card or an
\* exception ends the pagination
ParseListPage ==
    /\ d_pc = "parse"
    /\ \E n \in 0..MaxCards, raised \in BOOLEAN :
         IF raised \/ n = 0
         THEN d_pc' = AfterPagination /\ UNCHANGED game_cards
         ELSE d_pc' = "cards" /\ game_cards' = n
    /\ UNCHANGED <<dekuRest, page_number, card_count, all_initial_game_data, all_tasks,
                   size_results>>

\* lines 165-183: the record of the card
GameInfo(c) == [card |-> c, name |-> "card"]

\* lines 197-199: the record the handler appends
ErrorInfo(c) == [card |-> c, name |-> "Error Parsing Card"]

\* lines 187 and 191, 200: a detail task, and the placeholder asyncio.sleep(0)
DetailTask(c) == [card |-> c, kind |-> "task", state |-> "scheduled"]
Placeholder(c) == [card |-> c, kind |-> "placeholder", state |-> "scheduled"]

\* Lines 164-204: one card, from the await of line 167 to the next await. An
\* exception can be raised before game_info is appended (lines 167-182), or by
\* the creation or the registration of the task (lines 186-191), when game_info
\* already is in the list; the handler of lines 194-200 appends in both cases.
Card ==
    /\ d_pc = "cards"
    /\ game_cards > 0
    /\ LET c == card_count + 1
       IN  /\ card_count' = c
           /\ \E has_link \in BOOLEAN, raised \in {"no", "before line 183", "after line 183"} :
                /\ all_initial_game_data' =
                     IF raised = "no" THEN Append(all_initial_game_data, GameInfo(c))
                     ELSE IF raised = "before line 183"
                          THEN Append(all_initial_game_data, ErrorInfo(c))
                     ELSE all_initial_game_data \o <<GameInfo(c), ErrorInfo(c)>>
                /\ all_tasks' =
                     IF raised = "no" /\ has_link THEN Append(all_tasks, DetailTask(c))
                     ELSE Append(all_tasks, Placeholder(c))
    /\ game_cards' = game_cards - 1
    /\ IF game_cards = 1
       THEN page_number' = page_number + 1 /\ d_pc' = "sleep"
       ELSE UNCHANGED <<page_number, d_pc>>
    /\ UNCHANGED <<dekuRest, size_results>>

\* line 204: asyncio.sleep(5) returns
NextListPage ==
    /\ d_pc = "sleep"
    /\ d_pc' = "fetch_list"
    /\ UNCHANGED <<dekuRest, page_number, game_cards, card_count, all_initial_game_data,
                   all_tasks, size_results>>

\* Lines 41-45: asyncio.create_task schedules the task on the running loop, which
\* runs it as soon as main() is suspended at an await; every state of main() in
\* this model is such an await. The task then calls session.get.
TaskRequest(i) ==
    /\ d_pc \in {"fetch_list", "parse", "cards", "sleep", "gather"}
    /\ all_tasks[i].kind = "task"
    /\ all_tasks[i].state = "scheduled"
    /\ all_tasks' = [all_tasks EXCEPT ![i].state = "requested"]
    /\ UNCHANGED <<dekuRest, d_pc, page_number, game_cards, card_count,
                   all_initial_game_data, size_results>>

\* lines 45-97: the detail page is answered and fetch_game_size returns
TaskDone(i) ==
    /\ all_tasks[i].state = "requested"
    /\ all_tasks' = [all_tasks EXCEPT ![i].state = "done"]
    /\ UNCHANGED <<dekuRest, d_pc, page_number, game_cards, card_count,
                   all_initial_game_data, size_results>>

\* lines 217-236: gather runs the placeholders, waits for the tasks and returns
\* the results in the order of all_tasks; the merge is by index
Gather ==
    /\ d_pc = "gather"
    /\ \A i \in DOMAIN all_tasks : all_tasks[i].kind = "task" => all_tasks[i].state = "done"
    /\ size_results' = [i \in DOMAIN all_tasks |-> all_tasks[i].card]
    /\ d_pc' = "done"
    /\ UNCHANGED <<dekuRest, page_number, game_cards, card_count, all_initial_game_data,
                   all_tasks>>

\* ---- esselunga_category_mapper.py: the hierarchical paths ----

\* most items in the menu the server returns; the ids are 1..n, and a label is
\* named by the id of its item
MaxIds == 3

\* parentMenuItemId null
NoParent == 0

\* line 34: the menus of the model: every item has no parent, an item of the
\* menu (itself included) or an id the menu does not hold as its parent
Menus == UNION {[1..n -> {NoParent} \cup 1..(MaxIds + 1)] : n \in 1..MaxIds}

\* the model keeps the first MaxIds + 1 labels of path_list: no path of a menu
\* without a cycle is longer than MaxIds
KeptLabels(path) == IF Len(path) <= MaxIds THEN path ELSE SubSeq(path, 1, MaxIds + 1)

RECURSIVE Reverse(_)
Reverse(s) == IF s = <<>> THEN <<>> ELSE Append(Reverse(Tail(s)), Head(s))

\* lines 28-36: the menu was downloaded and is not empty
MenuInit ==
    /\ m_pc = "for"
    /\ items_map \in Menus
    /\ item_id = 0
    /\ current_id = NoParent
    /\ path_list = <<>>
    /\ categorie_finali = <<>>

\* lines 39-41: the next item of the menu, or the end of the loop and lines 67-81
NextMenuItem ==
    /\ m_pc = "for"
    /\ IF item_id < Len(items_map)
       THEN /\ item_id' = item_id + 1
            /\ current_id' = item_id + 1
            /\ path_list' = <<>>
            /\ m_pc' = "while"
       ELSE /\ m_pc' = "done"
            /\ UNCHANGED <<item_id, current_id, path_list>>
    /\ UNCHANGED <<menuRest, items_map, categorie_finali>>

\* lines 53-65: the path of the item is reversed and recorded
RecordPath ==
    /\ categorie_finali' = Append(categorie_finali, Reverse(path_list))
    /\ m_pc' = "for"

\* line 44: the test of the while condition
WhileTest ==
    /\ m_pc = "while"
    /\ IF current_id # NoParent
       THEN m_pc' = "body" /\ UNCHANGED categorie_finali
       ELSE RecordPath
    /\ UNCHANGED <<menuRest, items_map, item_id, current_id, path_list>>

\* lines 45-51: one pass of the body; an id missing from the menu breaks the loop
ClimbToParent ==
    /\ m_pc = "body"
    /\ IF current_id \in DOMAIN items_map
       THEN /\ path_list' = KeptLabels(Append(path_list, current_id))
            /\ current_id' = items_map[current_id]
            /\ m_pc' = "while"
            /\ UNCHANGED categorie_finali
       ELSE /\ RecordPath
            /\ UNCHANGED <<current_id, path_list>>
    /\ UNCHANGED <<menuRest, items_map, item_id>>

\* ---- playwright_scrape_justwatch_infinite_scroll.py: the scroll loop ----

\* lines 11 and 17
MAX_STABLE_SCROLLS == 5
MAX_TITLES_TO_SCRAPE == 1400

\* lines 157-158
max_scroll_attempts == MAX_TITLES_TO_SCRAPE \div 10 + 20

\* most titles not yet seen that an ordinary pass finds on the page
MaxFresh == 2

\* The number of titles of the page that are not in seen_titles (line 213): a few,
\* or, when the page lists a whole catalogue, more than the limit leaves room for.
FreshCounts == 0..MaxFresh \cup {MAX_TITLES_TO_SCRAPE + 1}

\* lines 154-156
ScrollInit ==
    /\ s_pc = "loop"
    /\ seen_titles = {}
    /\ stable_scroll_count = 0
    /\ scroll_attempts = 0
    /\ idle_passes = 0
    /\ passes_run = 0

\* lines 165-167
LoopCondition ==
    /\ stable_scroll_count < MAX_STABLE_SCROLLS
    /\ scroll_attempts < max_scroll_attempts
    /\ Cardinality(seen_titles) < MAX_TITLES_TO_SCRAPE

\* lines 216-220: the first can_add_count of the new titles; the titles found are
\* numbered on from the ones already seen
TitlesToAddAll(fresh) == (Cardinality(seen_titles) + 1)..(Cardinality(seen_titles) + fresh)
TitlesToAdd(fresh) ==
    LET can_add_count == MAX_TITLES_TO_SCRAPE - Cardinality(seen_titles)
        kept == IF fresh <= can_add_count THEN fresh ELSE can_add_count
    IN  (Cardinality(seen_titles) + 1)..(Cardinality(seen_titles) + kept)

\* lines 176-198: wait_for_selector raised
NoItemAttached ==
    /\ UNCHANGED seen_titles
    /\ idle_passes' = idle_passes + 1
    /\ IF Cardinality(seen_titles) = 0 /\ scroll_attempts' > 1
       THEN s_pc' = "done" /\ UNCHANGED stable_scroll_count
       ELSE /\ stable_scroll_count' = stable_scroll_count + 1
            /\ s_pc' = IF stable_scroll_count' >= MAX_STABLE_SCROLLS THEN "done" ELSE "loop"

\* lines 200-270: the titles on the page are read, the new ones are added up to
\* the limit, and one of the three breaks or the scroll follows
TitlesRead(fresh) ==
    LET titles_to_add_this_round == TitlesToAdd(fresh)
    IN  /\ seen_titles' = seen_titles \cup titles_to_add_this_round
        /\ IF fresh > 0 /\ titles_to_add_this_round # {}
           THEN stable_scroll_count' = 0 /\ idle_passes' = 0
           ELSE /\ stable_scroll_count' = stable_scroll_count + 1
                /\ idle_passes' = idle_passes + 1
        /\ s_pc' = IF \/ Cardinality(seen_titles') >= MAX_TITLES_TO_SCRAPE
                      \/ stable_scroll_count' >= MAX_STABLE_SCROLLS
                      \/ scroll_attempts' >= max_scroll_attempts
                   THEN "done" ELSE "loop"

\* lines 165-270: one pass of the loop body
ScrollPass ==
    /\ s_pc = "loop"
    /\ LoopCondition
    /\ scroll_attempts' = scroll_attempts + 1
    /\ passes_run' = passes_run + 1
    /\ \E raised \in BOOLEAN, fresh \in FreshCounts :
         IF raised THEN NoItemAttached ELSE TitlesRead(fresh)
    /\ UNCHANGED scrollRest

\* lines 165-167, 272: the condition is false and the loop ends
EndScroll ==
    /\ s_pc = "loop"
    /\ ~LoopCondition
    /\ s_pc' = "done"
    /\ UNCHANGED <<scrollRest, seen_titles, stable_scroll_count, scroll_attempts,
                   idle_passes, passes_run>>

\* ---- the specifications ----

WorkerStep(w) ==
    \/ Take(w)
    \/ Begin(w)
    \/ LoopHead(w)
    \/ SendRequest(w)
    \/ Resp404(w)
    \/ RespOk(w)
    \/ RespTimeout(w)
    \/ Resp429(w)
    \/ Wake(w)
    \/ RespHTTPError(w)
    \/ RespNetworkError(w)

MainStep ==
    \/ Prepare
    \/ Submit
    \/ CollectNext
    \/ AfterLoop
    \/ Join
    \/ Write

\* one execution of main()
RunStep ==
    \/ MainStep
    \/ \E w \in Workers : WorkerStep(w)

Next ==
    \/ RunStep
    \/ NextRun

Spec == Init /\ [][Next]_vars

\* One execution of main() under the scheduling the interpreter and the HTTP
\* client give: every thread that can take a step eventually takes one, every
\* request is answered or times out (REQUEST_TIMEOUT), every sleep ends.
FairSpec ==
    /\ Init
    /\ [][RunStep]_vars
    /\ WF_vars(MainStep)
    /\ \A w \in Workers : WF_vars(WorkerStep(w))

\* The output files an execution can find and fail to read: a file that is not a
\* table at all, and a table of an earlier run (one row, ID 1) whose header was
\* damaged.
DamagedFiles == {<<>>, <<<<1>>>>}

FileInit ==
    /\ codici_totali \in Sitemaps
    /\ csv_rows \in DamagedFiles
    /\ csv_bad = TRUE
    /\ RunStart
    /\ ParseIdle
    /\ NormIdle
    /\ ValueIdle
    /\ ScriptsIdle

\* one execution of main() that starts with an unreadable output file
FileSpec == FileInit /\ [][RunStep]_vars

\* one execution of main() in which the handling of an answer can also raise an
\* exception the worker does not expect
ErrNext ==
    \/ RunStep
    \/ \E w \in Workers : RespRaises(w)

ErrSpec == Init /\ [][ErrNext]_vars

\* no execution of main() is under way
ScraperIdle ==
    /\ codici_totali = <<>>
    /\ csv_rows = <<>>
    /\ csv_bad = FALSE
    /\ RunStart

ParseNext ==
    \/ CellsRow
    \/ EndCells
    \/ HtmlRow
    \/ EndHtml

\* the parse of one payload, for every payload of at most MaxRows rows a loop
ParseStart ==
    /\ ScraperIdle
    /\ NormIdle
    /\ ValueIdle
    /\ ScriptsIdle
    /\ ParseInit

ParseSpec == ParseStart /\ [][ParseNext]_vars

NormNext ==
    \/ CleanStage
    \/ IgnoreStage
    \/ DictionaryStage
    \/ RegexStage
    \/ FuzzyStage

\* one call of normalize_nutrient, for every label of Labels
NormStart ==
    /\ ScraperIdle
    /\ ParseIdle
    /\ ValueIdle
    /\ ScriptsIdle
    /\ NormInit

NormSpec == NormStart /\ [][NormNext]_vars

ValueStart ==
    /\ ScraperIdle
    /\ ParseIdle
    /\ NormIdle
    /\ ScriptsIdle
    /\ ValueInit

\* the reading of one value text, for every text of at most MaxParts parts
ValueSpec == ValueStart /\ [][ValueRow]_vars

\* one execution of gamepass_picker.py after the session was warmed up
GameNext ==
    \/ ListPage
    \/ StopListing
    \/ \E i \in DOMAIN futures : StartPage(i)
    \/ \E i \in DOMAIN futures : PageAnswer(i)
    \/ PoolShutdown
    \/ \E i \in DOMAIN futures : GameCollect(i)
    \/ GameCollected

\* no script of the grocery optimizer is running
GroceryIdle ==
    /\ ScraperIdle
    /\ ParseIdle
    /\ NormIdle
    /\ ValueIdle

GameStart ==
    /\ GroceryIdle
    /\ ClozeIdle
    /\ WaitIdle
    /\ DekuIdle
    /\ MenuIdle
    /\ ScrollIdle
    /\ GameInit

GameSpec == GameStart /\ [][GameNext]_vars

ClozeStart ==
    /\ GroceryIdle
    /\ GameIdle
    /\ WaitIdle
    /\ DekuIdle
    /\ MenuIdle
    /\ ScrollIdle
    /\ ClozeInit

\* the correction of one reply, for every reply of at most MaxPieces pieces
ClozeSpec == ClozeStart /\ [][CorrectCloze]_vars

WaitNext ==
    \/ TimedRequest
    \/ TimedWake

WaitStart ==
    /\ GroceryIdle
    /\ GameIdle
    /\ ClozeIdle
    /\ DekuIdle
    /\ MenuIdle
    /\ ScrollIdle
    /\ WaitInit

\* the retry sequence of one work item with its waits
WaitSpec == WaitStart /\ [][WaitNext]_vars

DekuNext ==
    \/ FetchListPage
    \/ ParseListPage
    \/ Card
    \/ NextListPage
    \/ \E i \in DOMAIN all_tasks : TaskRequest(i)
    \/ \E i \in DOMAIN all_tasks : TaskDone(i)
    \/ Gather

DekuStart ==
    /\ GroceryIdle
    /\ GameIdle
    /\ ClozeIdle
    /\ WaitIdle
    /\ MenuIdle
    /\ ScrollIdle
    /\ DekuInit

\* one execution of async_scrape_dekudeals_file_sizes.py
DekuSpec == DekuStart /\ [][DekuNext]_vars

MenuNext ==
    \/ NextMenuItem
    \/ WhileTest
    \/ ClimbToParent

MenuStart ==
    /\ GroceryIdle
    /\ GameIdle
    /\ ClozeIdle
    /\ WaitIdle
    /\ DekuIdle
    /\ ScrollIdle
    /\ MenuInit

\* scarica_e_processa_categorie after the download: one thread, which executes
\* its next statement as long as it has one
MenuSpec == MenuStart /\ [][MenuNext]_vars /\ WF_vars(MenuNext)

ScrollNext ==
    \/ ScrollPass
    \/ EndScroll

ScrollStart ==
    /\ GroceryIdle
    /\ GameIdle
    /\ ClozeIdle
    /\ WaitIdle
    /\ DekuIdle
    /\ MenuIdle
    /\ ScrollInit

\* the scroll loop of extract_movie_titles, whatever the page shows
ScrollSpec == ScrollStart /\ [][ScrollNext]_vars

\* ---- the claims ----

Finished == pc = "done" /\ submitted = Len(codici_da_analizzare) /\ Items # {}

\* C1: after a run in which a request timed out, every work item that had
\* already returned SUCCESS when the stop flag was set has its row among the
\* rows the run appended to the output file.
C1_CompletedSuccessIsWritten ==
    (pc = "done" /\ stop_event) =>
        \A i \in succ_before_stop : RowOf(i) \in Range(new_rows)

\* C2: no session.get call starts while the stop flag is set.
C2_NoRequestAfterStop == ~req_after_stop

C4_RetryBound ==
    \A i \in Items :
        /\ requests[i] <= MAX_RETRIES_ON_429
        /\ requests[i] <= sleeps[i] + 1
        /\ n429[i] = MAX_RETRIES_ON_429 => outcome[i] = "SKIP"
        /\ (last_resp[i] = "429" /\ n429[i] < MAX_RETRIES_ON_429 /\ ~stop_event)
              => st[i] \in {"sleep", "loop", "ready", "inflight"}

C4_Witness ==
    \E i \in Items :
        /\ n429[i] = MAX_RETRIES_ON_429
        /\ requests[i] = MAX_RETRIES_ON_429
        /\ sleeps[i] = MAX_RETRIES_ON_429 - 1
        /\ outcome[i] = "SKIP"
        /\ ~stop_event

\* C5: an item whose request is answered with a parseable body after n
\* answers 429 returns SUCCESS, n is below the retry limit and exactly n + 1
\* requests were issued for it.
C5_SuccessAfter429s ==
    \A i \in Items :
        last_resp[i] = "ok" =>
            /\ outcome[i] = "SUCCESS"
            /\ n429[i] < MAX_RETRIES_ON_429
            /\ requests[i] = n429[i] + 1

C5_Witness ==
    \E i, j \in Items :
        /\ i # j
        /\ last_resp[i] = "ok" /\ n429[i] = 3 /\ requests[i] = 4
        /\ outcome[i] = "SUCCESS"
        /\ st[j] = "sleep"
        /\ ~stop_event

\* C6: the stop flag is set exactly when a request of the run has timed out,
\* and no step of the run clears it.
C6_StopIffTimeout ==
    /\ [](stop_event <=> \E i \in Items : last_resp[i] = "timeout")
    /\ [][(stop_event /\ run' = run) => stop_event']_vars

C6_Witness ==
    /\ stop_event
    /\ pc = "done"
    /\ \E i, j \in Items : last_resp[i] = "timeout" /\ last_resp[j] = "429"

\* C7: once the stop flag is set, the run reaches its end with every worker
\* finished or cancelled and the collected results in the output file.
C7_StopLeadsToWrite ==
    stop_event ~>
        /\ pc = "done"
        /\ \A i \in Items : st[i] \in {"done", "cancelled"}
        /\ \A w \in Workers : running[w] = 0
        /\ Len(new_rows) = Len(lista_nuovi_prodotti)
        /\ \A k \in DOMAIN lista_nuovi_prodotti :
              /\ new_rows[k] = RowOf(lista_nuovi_prodotti[k])
              /\ csv_rows[Len(csv_rows) - Len(new_rows) + k] = new_rows[k]

C7_Witness ==
    /\ stop_event
    /\ pc = "done"
    /\ new_rows # <<>>
    /\ \E i \in Items : last_resp[i] = "timeout" /\ sleeps[i] > 0

\* C8 as stated: a thread never starts a request without having waited since
\* the previous request it started.
C8_DelayBetweenAnyTwoRequests ==
    \A w \in Workers : gap[w] \notin {"retry_at_once", "new_item_at_once"}

\* C8 amended: a thread never starts a retry of an item without having waited
\* since its previous request.
C8_DelayBeforeEveryRetry ==
    \A w \in Workers :
        /\ gap[w] # "retry_at_once"
        /\ \A i \in Items :
              (running[w] = i /\ st[i] = "inflight" /\ attempt[i] > 0) => gap[w] = "waited"

C8_Witness ==
    \E w \in Workers, i \in Items :
        running[w] = i /\ st[i] = "inflight" /\ attempt[i] = 2 /\ gap[w] = "waited"

\* the output file as the current run found it
CsvBefore == SubSeq(csv_rows, 1, Len(csv_rows) - Len(new_rows))

\* C9 as stated: a later run on the same sitemap, its ledger read from the
\* rows the earlier run wrote, appends no row (stated here for the sitemaps
\* whose codes are all read back from the file as they were written).
C9_SecondRunAddsNoRows ==
    (/\ run > 1 /\ pc = "done"
     /\ codici_gia_analizzati # {}
     /\ \A k \in DOMAIN codici_totali : IntStr(codici_totali[k]) = codici_totali[k])
        => new_rows = <<>>

\* C9 amended: a later run appends no row whose identifier is in the ledger
\* read back from the output of the earlier runs.
C9_NoNewRowForLedgerId ==
    (run > 1 /\ pc = "done") =>
        \A k \in DOMAIN new_rows : new_rows[k] \notin LoadLedger(CsvBefore)

C9_Witness ==
    /\ run > 1 /\ pc = "done"
    /\ LoadLedger(CsvBefore) # {}
    /\ new_rows # <<>>

\* C10: no work item and no request carries an identifier of the ledger, and
\* the ledger does not change between the dispatch and the end of the run.
C10_NoRequestForLedgerId ==
    /\ [](\A i \in Items : codici_da_analizzare[i] \notin codici_gia_analizzati)
    /\ [][pc # "start" /\ run' = run => codici_gia_analizzati' = codici_gia_analizzati]_vars

C10_Witness ==
    /\ codici_gia_analizzati # {}
    /\ \E i \in Items : requests[i] > 0 /\ st[i] = "inflight"

C12_ErrorSkipsAtOnce ==
    \A i \in Items :
        last_resp[i] \in {"404", "http_error", "network_error"} =>
            /\ outcome[i] = "SKIP"
            /\ st[i] = "done"
            /\ \A w \in Workers : running[w] # i
            /\ requests[i] = n429[i] + 1

\* the three errors, each met on a retry after a 429, in finished runs
C12_Witness ==
    /\ Finished
    /\ \E i \in Items :
          /\ last_resp[i] = "http_error"
          /\ n429[i] > 0
          /\ sleeps[i] > 0
          /\ \E j \in Items : last_resp[j] \in {"404", "network_error"}

\* the outcome the worker gives an item whose last request got the answer resp
\* ("none": no request was sent)
OutcomeOfAnswer(resp) ==
    CASE resp = "ok" -> "SUCCESS"
      [] resp = "ok_unparsed" -> "PARSE_FAILURE"
      [] resp = "timeout" -> "TIMEOUT_STOP"
      [] resp = "raised" -> "EXCEPTION"
      [] OTHER -> "SKIP"

\* C13: an error of one item that is not a timeout (HTTP error, network error,
\* parse failure, exception raised in the worker) is that item's outcome only: it
\* never gets out of main's collecting loop, never sets the stop flag, and the
\* outcome of every item follows from the answer to its own last request; in a
\* finished run without a timeout every item has been collected and the rows
\* written are those of the successful items.
C13_ErrorsStayWithTheirItem ==
    /\ pc # "crashed"
    /\ stop_event => \E i \in Items : last_resp[i] = "timeout"
    /\ \A i \in Items : st[i] = "done" => outcome[i] = OutcomeOfAnswer(last_resp[i])
    /\ (Finished /\ ~stop_event) =>
          /\ \A i \in Items : collected[i] = 1
          /\ Range(new_rows) = {RowOf(i) : i \in {j \in Items : last_resp[j] = "ok"}}

\* a finished run in which the worker of one item raised and the row of another,
\* successful item was still written
C13_Witness ==
    /\ Finished /\ ~stop_event
    /\ \E i, j \in Items :
          /\ outcome[i] = "EXCEPTION"
          /\ collected[i] = 1
          /\ outcome[j] = "SUCCESS"
          /\ RowOf(j) \in Range(new_rows)

\* the work items main collected with the outcome oc
CollectedAs(oc) == {i \in Items : collected[i] = 1 /\ outcome[i] = oc}

\* C14: at the end of a run the rows added to the output table are one row for
\* each item collected with Success and nothing else, and every item whose answer
\* gave no classified nutrient value is a ParseFailure whose payload is in the
\* side-channel file.
C14_RowsAndSideChannel ==
    Finished =>
        /\ Len(new_rows) = Cardinality(CollectedAs("SUCCESS"))
        /\ Range(new_rows) = {RowOf(i) : i \in CollectedAs("SUCCESS")}
        /\ \A i \in Items :
              last_resp[i] = "ok_unparsed" =>
                  /\ outcome[i] = "PARSE_FAILURE"
                  /\ codici_da_analizzare[i] \in Range(failed_written)

\* C15: while one product record is parsed, every canonical nutrient field is
\* written at most once: no row that follows the one which gave a field its value
\* assigns the field again or changes its value.
C15_FieldWrittenAtMostOnce ==
    [][\A f \in Range(CANONICAL_LABELS) :
          prodotto[f] # NoValue => (prodotto'[f] = prodotto[f] /\ writes'[f] = writes[f])]_vars

\* C16: a label whose cleaned form contains a denylist entry as a substring gets
\* none from normalize_nutrient, whatever the dictionary and the patterns would
\* make of it.
C16_DenylistWins ==
    (/\ n_stage = "returned"
     /\ \E word \in IGNORE_LIST : Contains(clean_text(label), word))
    => n_result = None

\* a rejected label that a pattern matches ("fibra grezza") and one whose cleaned
\* form has a synonym key in front of the denylist word ("sale porzione")
C16_Witness ==
    /\ n_stage = "returned"
    /\ returned_by = "ignore"
    /\ clean_text(label) \notin IGNORE_LIST
    /\ \E word \in IGNORE_LIST : Contains(clean_text(label), word)
    /\ Matching(clean_text(label)) # {}
    /\ \E key \in DOMAIN CLEAN_NORMALIZATION_MAP : Contains(clean_text(label), key)

\* C17: for every key of the synonym table and every raw label whose cleaned form
\* is the cleaned key, normalize_nutrient returns the canonical name the table
\* gives the key, from the dictionary stage: no denylist entry and no other stage
\* takes the label first.
C17_SynonymKeysMapped ==
    n_stage = "returned" =>
        \A key \in DOMAIN NORMALIZATION_MAP :
            clean_text(label) = clean_text(key) =>
                /\ n_result = NORMALIZATION_MAP[key]
                /\ returned_by = "dictionary"

\* a raw spelling that is not the key itself, of a key that no pattern matches
\* ("Valore energetico:")
C17_Witness ==
    /\ n_stage = "returned"
    /\ label \notin DOMAIN NORMALIZATION_MAP
    /\ \E key \in DOMAIN NORMALIZATION_MAP :
          /\ clean_text(label) = clean_text(key)
          /\ Matching(clean_text(label)) = {}
          /\ n_result = NORMALIZATION_MAP[key]

\* C18: the regex stage returns the first name of the fixed priority order whose
\* pattern matches the cleaned label, and passes on only when none matches; a
\* label both the saturated-fat and the fat pattern match is saturated fat, one
\* both the sugars and the carbohydrates pattern match is sugars.
C18_RegexPriority ==
    LET c == clean_text(label)
        Hit(k) == REGEX_MAP(REGEX_PRIORITY_ORDER[k], c)
    IN  /\ returned_by = "regex" =>
              /\ \E k \in DOMAIN REGEX_PRIORITY_ORDER :
                    /\ n_result = REGEX_PRIORITY_ORDER[k]
                    /\ Hit(k)
                    /\ \A j \in 1..(k - 1) : ~Hit(j)
              /\ (REGEX_MAP("Grassi saturi", c) /\ REGEX_MAP("Grassi", c))
                    => n_result = "Grassi saturi"
              /\ (REGEX_MAP("Zuccheri", c) /\ REGEX_MAP("Carboidrati", c)
                    /\ ~REGEX_MAP("Grassi saturi", c))
                    => n_result = "Zuccheri"
        /\ (n_stage = "returned" /\ returned_by \in {"fuzzy", "none"}) =>
              \A k \in DOMAIN REGEX_PRIORITY_ORDER : ~Hit(k)

\* a label the patterns of saturated fat and of fat both match ("saturi grassi")
C18_Witness ==
    /\ returned_by = "regex"
    /\ REGEX_MAP("Grassi saturi", clean_text(label))
    /\ REGEX_MAP("Grassi", clean_text(label))
    /\ n_result = "Grassi saturi"

\* C19: the stages are tried in the order ignore, dictionary, regex, fuzzy and the
\* first that accepts decides: a rejected or empty label gets none, else a cleaned
\* synonym key gets its canonical name, else a label some pattern matches gets
\* the name of a matching pattern; extractOne is called only when all of these
\* miss, and its name is returned exactly when its score is at least the
\* threshold; otherwise the result is none.
C19_StageOrder ==
    n_stage = "returned" =>
        LET c == clean_text(label)
            empty == label = <<>> \/ Strip(label) = <<>> \/ c = <<>>
            denied == \E word \in IGNORE_LIST : Contains(c, word)
            known == c \in DOMAIN CLEAN_NORMALIZATION_MAP
            hits == {REGEX_PRIORITY_ORDER[k] : k \in Matching(c)}
        IN  IF empty \/ denied
            THEN n_result = None /\ best_match = NotCalled
            ELSE IF known
            THEN n_result = CLEAN_NORMALIZATION_MAP[c] /\ best_match = NotCalled
            ELSE IF hits # {}
            THEN n_result \in hits /\ best_match = NotCalled
            ELSE /\ best_match \in FuzzyAnswers
                 /\ n_result = IF best_match[1] # None /\ best_match[2] >= fuzzy_threshold
                               THEN best_match[1] ELSE None

\* a label only the fuzzy stage accepts, with a score that is just the threshold
C19_Witness ==
    /\ n_stage = "returned"
    /\ returned_by = "fuzzy"
    /\ best_match[2] = fuzzy_threshold
    /\ n_result = best_match[1]
    /\ n_result # None

\* the digits of a text
DigitsOf(t) == SelectSeq(t, LAMBDA c : c \in DIGITS)

\* C20: a number text made of digit groups, dots and one comma is read with the
\* dots removed and the comma as the decimal point ("1.234,5 g" is 1234.5, "0,5 g"
\* is 0.5); a value text in which no number is found leaves the field absent, which
\* is not the value zero.
C20_CommaIsDecimalPoint ==
    v_stage = "done" =>
        LET commas == {k \in DOMAIN valore_da_usare : valore_da_usare[k] = ","} IN
        /\ (Cardinality(commas) = 1 /\ DigitsOf(valore_da_usare) # <<>>) =>
              LET p == CHOOSE k \in commas : TRUE IN
              campo = <<NoLeadingZeros(DigitsOf(SubSeq(valore_da_usare, 1, p - 1))),
                        NoTrailingZeros(DigitsOf(SubSeq(valore_da_usare, p + 1,
                                                        Len(valore_da_usare))))>>
        /\ (v_nome = "Grassi" /\ raw_value_text = <<"1", ".", "2", "3", "4", ",", "5", " ", "g">>)
              => campo = <<<<"1", "2", "3", "4">>, <<"5">>>>
        /\ (v_nome = "Grassi" /\ raw_value_text = <<"0", ",", "5", " ", "g">>)
              => campo = <<<<>>, <<"5">>>>
        /\ (DigitsOf(raw_value_text) = <<>> \/ DigitsOf(valore_da_usare) = <<>>)
              => (campo = Absent /\ campo # <<<<>>, <<>>>>)

\* "1.234,5 g" has been read as 1234.5
C20_Witness ==
    /\ v_stage = "done"
    /\ v_nome = "Grassi"
    /\ raw_value_text = <<"1", ".", "2", "3", "4", ",", "5", " ", "g">>
    /\ valore_da_usare = <<"1", ".", "2", "3", "4", ",", "5">>
    /\ campo = <<<<"1", "2", "3", "4">>, <<"5">>>>

\* C21: scrape_game_page ends with a data dictionary or with None whatever the
\* page request does, it never raises, and the loop that reads the futures'
\* results therefore runs to the end and never ends the script with an exception.
C21_ScrapeGamePageNeverRaises ==
    /\ \A i \in DOMAIN futures : futures[i] # "raised"
    /\ g_pc # "crashed"

\* the single deletion {{c1::x}} in its correct form
DoubleBraced == <<"{", "{", "c", "1", ":", ":", "x", "}", "}">>

\* C22: correct_cloze_format leaves a deletion that already has double braces
\* unchanged, and applying it to its own output gives that output again.
C22_ClozeCorrectionIdempotent ==
    c_stage = "done" =>
        /\ result_text = DoubleBraced => corrected_text = DoubleBraced
        /\ correct_cloze_format(corrected_text) = corrected_text

\* x < y and x <= y for two floats <<n, d>>; d * 2^-53 is far below 1
FloatLess(x, y) == x[1] < y[1] \/ (x[1] = y[1] /\ x[2] < y[2])
FloatLeq(x, y) == x = y \/ FloatLess(x, y)

\* requests and sleeps alternate, and the sequence starts with a request
AttemptBackoffAttempt ==
    \A j \in DOMAIN events : events[j] = IF j % 2 = 1 THEN "attempt" ELSE "backoff"

\* the wait after each attempt is longer than the wait after the one before
WaitsIncrease ==
    \A a \in DOMAIN waits : a + 1 \in DOMAIN waits => FloatLess(waits[a], waits[a + 1])

\* C23 as stated: one backoff wait separates two successive requests of an item,
\* the wait after the attempt with index a is at least BACKOFF_FACTOR * 2^a and
\* less than BACKOFF_FACTOR * 2^a + 1, and the waits of the item strictly increase.
C23_WaitBelowNextInteger ==
    /\ AttemptBackoffAttempt
    /\ \A a \in DOMAIN waits :
         /\ FloatLeq(<<BACKOFF_FACTOR * Pow2(a - 1), 0>>, waits[a])
         /\ FloatLess(waits[a], <<BACKOFF_FACTOR * Pow2(a - 1) + 1, 0>>)
    /\ WaitsIncrease

\* C23, amended: one backoff wait separates two successive requests of an item,
\* the wait after the attempt with index a is at least BACKOFF_FACTOR * 2^a and at
\* most BACKOFF_FACTOR * 2^a + 1 (the float sum rounds up to the bound for the
\* largest jitters), and the waits of the item strictly increase.
C23_WaitUpToNextInteger ==
    /\ AttemptBackoffAttempt
    /\ \A a \in DOMAIN waits :
         /\ FloatLeq(<<BACKOFF_FACTOR * Pow2(a - 1), 0>>, waits[a])
         /\ FloatLeq(waits[a], <<BACKOFF_FACTOR * Pow2(a - 1) + 1, 0>>)
    /\ WaitsIncrease

\* all four waits of an item were taken, the first one of exactly 3 seconds
C23_Witness ==
    /\ b_st = "returned"
    /\ Len(waits) = MAX_RETRIES_ON_429 - 1
    /\ waits[1] = <<BACKOFF_FACTOR + 1, 0>>
    /\ Len(events) = 2 * MAX_RETRIES_ON_429 - 1

\* C24: after pagination the list of game records and the list of detail tasks
\* have the same length and the i-th task (and so the i-th result) is the one of
\* the card of the i-th record, also when the handling of a card raised.
C24_RecordsAndTasksAligned ==
    d_pc \in {"gather", "done"} =>
        /\ Len(all_initial_game_data) = Len(all_tasks)
        /\ \A i \in DOMAIN all_tasks : all_tasks[i].card = all_initial_game_data[i].card
        /\ \A i \in DOMAIN size_results : size_results[i] = all_initial_game_data[i].card

\* C25: no detail-page request starts while the pagination loop is still
\* fetching, parsing or waiting between list pages.
C25_DetailsAfterPagination ==
    d_pc \in {"fetch_list", "parse", "cards", "sleep"} =>
        \A i \in DOMAIN all_tasks : all_tasks[i].state = "scheduled"

\* C26: starting from an absent output file, after any sequence of runs no two
\* rows of the output table carry the same identifier, also when the sitemap
\* lists a product code more than once.
C26_NoTwoRowsWithSameId ==
    \A j, k \in DOMAIN csv_rows : j # k => csv_rows[j] # csv_rows[k]

\* C27: a run writes the header row only into an output file that was absent or
\* empty; rows appended to a file that was not empty come without a header row,
\* also when the file could not be read as a Resume Ledger.
C27_HeaderOnlyIntoEmptyFile ==
    (pc = "done" /\ scrivi_header) => (CsvBefore = <<>> /\ ~csv_bad)

\* C28: the cleaned label is in normal form: it holds only lowercase letters,
\* digits and single spaces, no space at either end, and cleaning it again
\* returns it unchanged.
C28_CleanTextNormalForm ==
    /\ \A k \in DOMAIN cleaned_label :
          cleaned_label[k] \in Range(ASCII_LOWER) \cup DIGITS \cup {" "}
    /\ \A k \in DOMAIN cleaned_label :
         cleaned_label[k] = " " => (k > 1 /\ k < Len(cleaned_label) /\ cleaned_label[k + 1] # " ")
    /\ clean_text(cleaned_label) = cleaned_label

\* C29: for every menu the server returns, also one in which an item is its own
\* parent or the parent links form a cycle, the building of the paths comes to
\* an end for every item.
C29_PathBuildingTerminates == <>(m_pc = "done")

\* C30: in every state of the scroll loop at most MAX_TITLES_TO_SCRAPE titles are
\* collected, the stable-scroll counter is the number of consecutive passes
\* that added no title since the last pass that added one, and at most
\* max_scroll_attempts passes are run.
C30_ScrollLoopBounds ==
    /\ Cardinality(seen_titles) <= MAX_TITLES_TO_SCRAPE
    /\ s_pc = "loop" => stable_scroll_count = idle_passes
    /\ passes_run <= max_scroll_attempts

\* the page listed more titles than the limit left room for, after passes that
\* added some titles and passes that added none
C30_Witness ==
    /\ s_pc = "done"
    /\ Cardinality(seen_titles) = MAX_TITLES_TO_SCRAPE
    /\ passes_run > MAX_STABLE_SCROLLS

====
